---- MODULE Spec2Model ----
(***************************************************************************)
(* A model of the piano-play-along core: the repeat/volta expansion of     *)
(* repeat-handler.ts, the interactive PracticeEngine (the repeat-aware     *)
(* class of practice-engine.ts) and the autonomous PlaybackEngine of       *)
(* playback-engine.ts.                                                     *)
(*                                                                         *)
(* Indices are 0-based as in the source: measure m is sourceMeasures[m+1]  *)
(* of the TLA+ sequence, note-group g is noteGroups[g+1], and playback     *)
(* position p is playbackSequence[p+1].                                    *)
(***************************************************************************)
EXTENDS Integers, Sequences, FiniteSets, Bags, TLC

VARIABLES
  \* ---- RepeatHandler ----
  sourceMeasures,     \* osmd.Sheet.SourceMeasures handed to buildPlaybackSequence
  rhNoteGroups,       \* RepeatHandler.noteGroups: the measure index of each note-group
  playbackSequence,   \* RepeatHandler.playbackSequence
  rhBuilt,            \* buildPlaybackSequence has run on the input
  rhLookup,           \* the last position round trip asked of the handler
  \* ---- PracticeEngine ----
  peScore,            \* state.score: the note-groups, each a set of notes
  peHandler,          \* repeatHandler: null, or the handler's playback sequence
  pePos,              \* currentPlaybackPosition
  peCur,              \* state.currentNoteGroupIndex
  pePressed,          \* state.pressedNotes
  peCorrect,          \* state.correctNotesPressed
  peIsPlaying,        \* state.isPlaying
  peMode,             \* practiceMode
  peTimers,           \* pending auto-advance timers (setTimeout is never cleared)
  peStaleTimers,      \* those of them scheduled before the latest pause()
  peEvents,           \* the callbacks the last operation invoked, in order
  peLastOp,           \* the last operation, its argument and the cursor before it
  peCompleted,        \* onComplete has fired since the cursor was last moved back
  \* ---- PlaybackEngine ----
  pbNoteGroups,       \* noteGroups, with the tie marks play() leaves on the notes
  pbHandler,          \* repeatHandler: null, or the handler's playback sequence
  pbIsPlaying,        \* isPlaying
  pbPos,              \* currentPlaybackPosition
  pbTimeoutSet,       \* timeoutId !== null
  pbTempo,            \* tempo, in BPM
  pbTempoMultiplier,  \* tempoMultiplier, in hundredths (100 is 1.0x)
  pbTasks,            \* bag of suspended playNextGroup calls and pending timers
  pbEvents,           \* the callbacks and sound-handler calls of the last step
  pbLastOp,           \* the last step, and whether a stale chain took it
  pbRun               \* the record of the current play() and of its resumptions

rhVars == <<sourceMeasures, rhNoteGroups, playbackSequence, rhBuilt, rhLookup>>

peVars == <<peScore, peHandler, pePos, peCur, pePressed, peCorrect, peIsPlaying,
            peMode, peTimers, peStaleTimers, peEvents, peLastOp, peCompleted>>

pbVars == <<pbNoteGroups, pbHandler, pbIsPlaying, pbPos, pbTimeoutSet, pbTempo,
            pbTempoMultiplier, pbTasks, pbEvents, pbLastOp, pbRun>>

vars == <<rhVars, peVars, pbVars>>

----------------------------------------------------------------------------
(* Bounds of the explored inputs.                                          *)

\* Scores of the repeat-handler specification have 1..MaxMeasures measures.
MaxMeasures == 3

\* Practice scores have 0..MaxScoreLen note-groups.
MaxScoreLen == 2

\* At most MaxTimers auto-advance timers are pending at once.
MaxTimers == 1

\* Playback scores have 0..MaxPlaybackLen note-groups.
MaxPlaybackLen == 2

\* At most MaxChains playNextGroup chains (a suspended call or a pending
\* timer each) are alive at once.
MaxChains == 2

\* Scores of the tie specification have 0..MaxTieLen note-groups.
MaxTieLen == 3

\* The iteration sets a volta bracket may carry (endingIndices).
VoltaIterations == {{1}, {2}}

Max(S) == CHOOSE x \in S : \A y \in S : y <= x
Min(S) == CHOOSE x \in S : \A y \in S : x <= y

----------------------------------------------------------------------------
(* RepeatHandler: parseRepetitionInstructions                              *)

\* One source measure: beginsWithLineRepetition(), endsWithLineRepetition(),
\* beginsRepetitionEnding() and FirstRepetitionInstructions[0].endingIndices.
MeasureFlags ==
  { [rs |-> a, re |-> b, ve |-> FALSE, idx |-> {}] : a \in BOOLEAN, b \in BOOLEAN }
  \cup
  { [rs |-> a, re |-> b, ve |-> TRUE, idx |-> s] :
       a \in BOOLEAN, b \in BOOLEAN, s \in VoltaIterations }

\* Where the ending that starts at measure j ends: the scan over k = j+1...
RECURSIVE endingEnd(_, _, _)
endingEnd(sm, j, k) ==
  IF k >= Len(sm) THEN j
  ELSE IF sm[k + 1].re THEN k
  ELSE IF sm[k + 1].ve THEN k - 1
  ELSE endingEnd(sm, j, k + 1)

\* The scan over j = i+1... for the matching end of the section opened at i,
\* recording the volta endings met on the way.
RECURSIVE findSectionEnd(_, _, _)
findSectionEnd(sm, j, endings) ==
  IF j >= Len(sm) THEN [endMeasure |-> -1, endings |-> endings]
  ELSE
    LET m == sm[j + 1]
        e1 == IF m.ve
              THEN Append(endings, [startMeasure |-> j,
                                    endMeasure |-> endingEnd(sm, j, j + 1),
                                    iterations |-> m.idx])
              ELSE endings
    IN IF m.re
       THEN [endMeasure |-> j,
             endings |-> IF m.ve
                         THEN Append(e1, [startMeasure |-> j, endMeasure |-> j,
                                          iterations |-> m.idx])
                         ELSE e1]
       ELSE findSectionEnd(sm, j + 1, e1)

\* A section without a matching end that stops at its first measure.
sectionEndAtStart(sm, i, endMeasure) ==
  IF endMeasure = -1 THEN i ELSE endMeasure

\* if (endMeasure === -1) endMeasure = sourceMeasures.length - 1, for the
\* section opened at measure i.
sectionEnd(sm, i, endMeasure) ==
  IF endMeasure = -1 THEN Len(sm) - 1 ELSE endMeasure

RECURSIVE parseFrom(_, _, _)
parseFrom(sm, i, sections) ==
  IF i >= Len(sm) THEN sections
  ELSE
    LET m == sm[i + 1] IN
    IF m.rs
    THEN LET found == findSectionEnd(sm, i + 1, <<>>)
             endM  == sectionEnd(sm, i, found.endMeasure)
         IN parseFrom(sm, i + 1,
                      Append(sections, [startMeasure |-> i, endMeasure |-> endM,
                                        repeatCount |-> 2, endings |-> found.endings]))
    ELSE IF m.re
    THEN LET hasLast == Len(sections) > 0
             lastEnd == IF hasLast THEN sections[Len(sections)].endMeasure ELSE -1
         IN IF ~hasLast \/ lastEnd < i
            THEN parseFrom(sm, i + 1,
                           Append(sections,
                                  [startMeasure |-> IF hasLast THEN lastEnd + 1 ELSE 0,
                                   endMeasure |-> i, repeatCount |-> 2,
                                   endings |-> <<>>]))
            ELSE parseFrom(sm, i + 1, sections)
    ELSE parseFrom(sm, i + 1, sections)

parseRepetitionInstructions(sm) == parseFrom(sm, 0, <<>>)

----------------------------------------------------------------------------
(* RepeatHandler: building the playback sequence                           *)

\* Array.prototype.find / findIndex: the first of the indices (1-based) whose
\* element passes the test, 0 if there is none.
FirstIndex(indices) == IF indices = {} THEN 0 ELSE Min(indices)

\* buildMeasureMap + addMeasureToSequence: one step per note-group of the
\* measure, in ascending note-group order.
RECURSIVE measureSteps(_, _, _, _)
measureSteps(ngs, measureIndex, iteration, g) ==
  IF g >= Len(ngs) THEN <<>>
  ELSE (IF ngs[g + 1] = measureIndex
        THEN <<[noteGroupIndex |-> g, measureIndex |-> measureIndex,
                repetitionIteration |-> iteration]>>
        ELSE <<>>)
       \o measureSteps(ngs, measureIndex, iteration, g + 1)

addMeasureToSequence(ngs, measureIndex, iteration) ==
  measureSteps(ngs, measureIndex, iteration, 0)

\* for (m = from; m <= to; m++) addMeasureToSequence(m, ..., iteration)
RECURSIVE addMeasures(_, _, _, _)
addMeasures(ngs, from, to, iteration) ==
  IF from > to THEN <<>>
  ELSE addMeasureToSequence(ngs, from, iteration)
       \o addMeasures(ngs, from + 1, to, iteration)

commonEndMeasure(section) ==
  IF Len(section.endings) > 0
  THEN Min({section.endings[e].startMeasure : e \in 1..Len(section.endings)}) - 1
  ELSE section.endMeasure

\* The last of the endings that list the iteration.
endingForLast(section, iteration) ==
  Max({e \in 1..Len(section.endings) : iteration \in section.endings[e].iterations}
      \cup {0})

\* The ending played in an iteration: endings.find(e => e.iterations.includes(it)).
endingFor(section, iteration) ==
  FirstIndex({e \in 1..Len(section.endings) : iteration \in section.endings[e].iterations})

\* A pass that plays the common region and leaves out the ending.
playCommonOnly(ngs, section, iteration) ==
  addMeasures(ngs, section.startMeasure, commonEndMeasure(section), iteration - 1)

\* One pass of the iteration loop of a section.
playIteration(ngs, section, iteration) ==
  addMeasures(ngs, section.startMeasure, commonEndMeasure(section), iteration - 1)
  \o (IF Len(section.endings) > 0
      THEN LET e == endingFor(section, iteration) IN
           IF e > 0
           THEN addMeasures(ngs, section.endings[e].startMeasure,
                            section.endings[e].endMeasure, iteration - 1)
           ELSE <<>>
      ELSE addMeasures(ngs, commonEndMeasure(section) + 1, section.endMeasure,
                       iteration - 1))

\* A section played through once only.
playSectionOnce(ngs, section, iteration) ==
  IF iteration > 1 THEN <<>> ELSE playIteration(ngs, section, iteration)

RECURSIVE playSection(_, _, _)
playSection(ngs, section, iteration) ==
  IF iteration > section.repeatCount THEN <<>>
  ELSE playIteration(ngs, section, iteration)
       \o playSection(ngs, section, iteration + 1)

\* A scan that resumes after the section end, whatever its endings.
afterSectionEnd(section) == section.endMeasure + 1

\* Where the outer scan resumes after a section.
afterSection(section) ==
  IF Len(section.endings) > 0
  THEN Max({section.endings[e].endMeasure : e \in 1..Len(section.endings)}) + 1
  ELSE section.endMeasure + 1

insideRepeat(repeatInfo, currentMeasure) ==
  \E r \in 1..Len(repeatInfo) :
     \/ /\ currentMeasure >= repeatInfo[r].startMeasure
        /\ currentMeasure <= repeatInfo[r].endMeasure
     \/ \E e \in 1..Len(repeatInfo[r].endings) :
           /\ currentMeasure >= repeatInfo[r].endings[e].startMeasure
           /\ currentMeasure <= repeatInfo[r].endings[e].endMeasure

RECURSIVE buildFrom(_, _, _, _)
buildFrom(ngs, repeatInfo, maxMeasure, currentMeasure) ==
  IF currentMeasure > maxMeasure THEN <<>>
  ELSE
    LET s == FirstIndex({r \in 1..Len(repeatInfo) :
                           repeatInfo[r].startMeasure = currentMeasure})
    IN IF s > 0
       THEN playSection(ngs, repeatInfo[s], 1)
            \o buildFrom(ngs, repeatInfo, maxMeasure, afterSection(repeatInfo[s]))
       ELSE (IF insideRepeat(repeatInfo, currentMeasure) THEN <<>>
             ELSE addMeasureToSequence(ngs, currentMeasure, 0))
            \o buildFrom(ngs, repeatInfo, maxMeasure, currentMeasure + 1)

\* Math.max(...[]) is -Infinity: with no note-groups the scan emits nothing.
buildSequenceFromRepeatInfo(ngs, repeatInfo) ==
  IF Len(ngs) = 0 THEN <<>>
  ELSE buildFrom(ngs, repeatInfo, Max({ngs[g] : g \in 1..Len(ngs)}), 0)

\* A linear sequence whose steps carry the measure index as note-group index.
buildLinearSequenceByMeasure(ngs) ==
  [i \in 1..Len(ngs) |-> [noteGroupIndex |-> ngs[i], measureIndex |-> ngs[i],
                          repetitionIteration |-> 0]]

buildLinearSequence(ngs) ==
  [i \in 1..Len(ngs) |-> [noteGroupIndex |-> i - 1, measureIndex |-> ngs[i],
                          repetitionIteration |-> 0]]

\* The sequence buildPlaybackSequence leaves in this.playbackSequence.
buildPlaybackSequence(sm, ngs) ==
  LET repeatInfo == parseRepetitionInstructions(sm) IN
  IF Len(repeatInfo) = 0
  THEN buildLinearSequence(ngs)
  ELSE buildSequenceFromRepeatInfo(ngs, repeatInfo)

getSequenceLength(seq) == Len(seq)

getNoteGroupIndexForPosition(seq, position) ==
  IF position < 0 \/ position >= Len(seq) THEN -1
  ELSE seq[position + 1].noteGroupIndex

\* The lookup returning the last step that refers to the note-group.
getLastPositionForNoteGroupIndex(seq, noteGroupIndex) ==
  IF \E i \in 1..Len(seq) : seq[i].noteGroupIndex = noteGroupIndex
  THEN Max({i \in 1..Len(seq) : seq[i].noteGroupIndex = noteGroupIndex}) - 1
  ELSE -1

getPositionForNoteGroupIndex(seq, noteGroupIndex) ==
  FirstIndex({i \in 1..Len(seq) : seq[i].noteGroupIndex = noteGroupIndex}) - 1

\* No lookup has been made yet.
NoLookup == [position |-> -2, noteGroupIndex |-> -2, first |-> -2, again |-> -2]

----------------------------------------------------------------------------
(* PracticeEngine (the repeat-aware class)                                 *)

Pitches == {60, 62}
PracticeModes == {"left", "right", "both"}

Note(p, h) == [pitch |-> p, hand |-> h]

\* The note-groups practice scores are made of. The score renderer emits a
\* note-group only for a time-slice that holds a note: a left-hand note, a
\* right-hand note, or both together. tempo is the optional BPM of the group,
\* 0 where the group carries none.
GroupKinds ==
  { [notes |-> {Note(60, "left")}, tempo |-> 90],
    [notes |-> {Note(62, "right")}, tempo |-> 0],
    [notes |-> {Note(60, "left"), Note(62, "right")}, tempo |-> 90] }

\* noteGroup.tempo || 120
DefaultTempo == 120

tempoOf(noteGroup) == IF noteGroup.tempo # 0 THEN noteGroup.tempo ELSE DefaultTempo

NoHandler == [present |-> FALSE, seq |-> <<>>]
Handler(seq) == [present |-> TRUE, seq |-> seq]

\* The engine's fields as one record, so that the methods read as functions
\* from engine to engine.
PE ==
  [score |-> peScore, handler |-> peHandler, pos |-> pePos, cur |-> peCur,
   pressed |-> pePressed, correct |-> peCorrect, isPlaying |-> peIsPlaying,
   mode |-> peMode, scheduled |-> 0, events |-> <<>>]

peSequenceLength(e) ==
  IF e.handler.present THEN getSequenceLength(e.handler.seq) ELSE Len(e.score)

getCurrentNoteGroupIndex(e) ==
  IF e.handler.present
  THEN getNoteGroupIndexForPosition(e.handler.seq, e.pos)
  ELSE e.pos

getExpectedNotes(mode, noteGroup) ==
  { n.pitch : n \in { x \in noteGroup.notes : mode = "both" \/ x.hand = mode } }

\* A check that is content with one expected note held.
someCorrect(expectedNotes, pressedNotes) ==
  \E note \in expectedNotes : note \in pressedNotes

\* A check that wants the held notes to be the expected ones and no others.
exactlyPressed(expectedNotes, pressedNotes) == expectedNotes = pressedNotes

\* expectedNotes.every(note => pressedNotes.has(note))
allCorrect(expectedNotes, pressedNotes) == expectedNotes \subseteq pressedNotes

notifyProgress(e) ==
  [e EXCEPT !.events = Append(@, [type |-> "progress", cur |-> e.cur,
                                  pressed |-> e.pressed, isPlaying |-> e.isPlaying])]

onComplete(e) == [e EXCEPT !.events = Append(@, [type |-> "complete"])]

autoPlayOtherHand(e, noteGroup) ==
  LET otherHandNotes ==
        { n \in noteGroup.notes : \/ e.mode = "left" /\ n.hand = "right"
                                  \/ e.mode = "right" /\ n.hand = "left" }
  IN IF e.mode = "both" \/ otherHandNotes = {} THEN e
     ELSE [e EXCEPT !.events = Append(@, [type |-> "autoPlay", notes |-> otherHandNotes,
                                          tempo |-> tempoOf(noteGroup)])]

RECURSIVE skipLoop(_)
skipLoop(e) ==
  IF e.pos >= peSequenceLength(e) THEN e
  ELSE LET noteGroupIndex == getCurrentNoteGroupIndex(e) IN
       IF noteGroupIndex < 0 \/ noteGroupIndex >= Len(e.score)
       THEN skipLoop([e EXCEPT !.pos = @ + 1])
       ELSE IF getExpectedNotes(e.mode, e.score[noteGroupIndex + 1]) # {}
       THEN e
       ELSE skipLoop([e EXCEPT !.pos = @ + 1])

\* A skip without the update of currentNoteGroupIndex after its loop: the
\* index is set only where the loop stops at a group with expected notes.
skipWithoutFinalUpdate(e) ==
  LET s == skipLoop(e) IN
  IF s.pos < peSequenceLength(s) THEN [s EXCEPT !.cur = getCurrentNoteGroupIndex(s)] ELSE s

\* A skip that leaves the cursor where it is.
skipNothing(e) == [e EXCEPT !.cur = getCurrentNoteGroupIndex(e)]

skipEmptyGroups(e) ==
  LET s == skipLoop(e) IN [s EXCEPT !.cur = getCurrentNoteGroupIndex(s)]

\* noteGroup.absoluteTime in whole notes: the score renderer gives every
\* note-group its cumulative score time, and the groups of a practice score
\* follow each other at one whole note.
peAbsoluteTime(noteGroupIndex) == noteGroupIndex

\* The delay scheduleNextAutoPlay hands to setTimeout for the group now under
\* the cursor, in milliseconds: timeDiff * (60000 / tempo) * 4 with the tempo
\* of the next group, or 0 (the immediate fallback) where no previous step
\* exists.
autoPlayDelay(e) ==
  LET nextNoteGroupIndex == getCurrentNoteGroupIndex(e)
      prevPlaybackPosition == e.pos - 1
      prevNoteGroupIndex ==
        IF e.handler.present
        THEN getNoteGroupIndexForPosition(e.handler.seq, prevPlaybackPosition)
        ELSE prevPlaybackPosition
  IN IF prevPlaybackPosition >= 0
        /\ prevNoteGroupIndex >= 0 /\ prevNoteGroupIndex < Len(e.score)
     THEN LET timeDiff == peAbsoluteTime(nextNoteGroupIndex)
                            - peAbsoluteTime(prevNoteGroupIndex)
              tempo == tempoOf(e.score[nextNoteGroupIndex + 1])
          IN (timeDiff * 60000 * 4) \div tempo
     ELSE 0

\* One setTimeout(() => { if (isPlaying) checkProgress() }, delay) is made when
\* the group now under the cursor needs no fresh key press.
scheduleNextAutoPlay(e) ==
  IF e.pos >= peSequenceLength(e) THEN e
  ELSE LET nextNoteGroupIndex == getCurrentNoteGroupIndex(e) IN
       IF nextNoteGroupIndex < 0 \/ nextNoteGroupIndex >= Len(e.score) THEN e
       ELSE LET expectedNotes == getExpectedNotes(e.mode, e.score[nextNoteGroupIndex + 1])
                allNextNotesHeld == expectedNotes # {} /\ allCorrect(expectedNotes, e.pressed)
            IN IF expectedNotes = {} \/ allNextNotesHeld
               THEN [e EXCEPT !.scheduled = @ + 1]
               ELSE e

advanceCursor(e) ==
  LET a == [e EXCEPT !.pos = @ + 1] IN [a EXCEPT !.cur = getCurrentNoteGroupIndex(a)]

checkProgress(e) ==
  IF e.cur >= Len(e.score) \/ e.cur < 0 THEN e
  ELSE
    LET currentGroup == e.score[e.cur + 1]
        expectedNotes == getExpectedNotes(e.mode, currentGroup)
    IN IF expectedNotes = {}
       THEN scheduleNextAutoPlay(
              notifyProgress(advanceCursor(autoPlayOtherHand(e, currentGroup))))
       ELSE IF allCorrect(expectedNotes, e.pressed)
       THEN LET a == [advanceCursor(autoPlayOtherHand(e, currentGroup))
                        EXCEPT !.correct = {}]
            IN IF a.pos >= peSequenceLength(a)
               THEN onComplete(notifyProgress([a EXCEPT !.isPlaying = FALSE]))
               ELSE LET b == notifyProgress(a)
                        nextNoteGroupIndex == getCurrentNoteGroupIndex(b)
                    IN IF nextNoteGroupIndex >= 0 /\ nextNoteGroupIndex < Len(b.score)
                       THEN scheduleNextAutoPlay(b)
                       ELSE b
       ELSE e

reset(e) ==
  LET r == [e EXCEPT !.pos = 0] IN
  notifyProgress([r EXCEPT !.cur = getCurrentNoteGroupIndex(r),
                           !.pressed = {}, !.correct = {}])

loadScore(e, noteGroups, repeatHandler) ==
  LET l == [e EXCEPT !.score = noteGroups, !.handler = repeatHandler, !.pos = 0] IN
  [l EXCEPT !.cur = getCurrentNoteGroupIndex(l), !.pressed = {}, !.correct = {}]

\* A mode change that only rewinds.
setPracticeModeNoSkip(e, mode) == reset([e EXCEPT !.mode = mode])

setPracticeMode(e, mode) == skipEmptyGroups(reset([e EXCEPT !.mode = mode]))

\* A start() that rewinds a finished pass.
startOver(e) ==
  LET r == IF e.pos >= peSequenceLength(e) THEN [e EXCEPT !.pos = 0] ELSE e
  IN notifyProgress(skipEmptyGroups([r EXCEPT !.isPlaying = TRUE]))

start(e) == notifyProgress(skipEmptyGroups([e EXCEPT !.isPlaying = TRUE]))

pause(e) == notifyProgress([e EXCEPT !.isPlaying = FALSE])

\* A jump whose range check admits the index one past the last note-group.
jumpToNoteGroupInclusive(e, index) ==
  IF index >= 0 /\ index <= Len(e.score)
  THEN LET position == getPositionForNoteGroupIndex(e.handler.seq, index)
           j == IF e.handler.present
                THEN (IF position >= 0 THEN [e EXCEPT !.pos = position] ELSE e)
                ELSE [e EXCEPT !.pos = index]
       IN notifyProgress(skipEmptyGroups([j EXCEPT !.cur = index, !.pressed = {},
                                                   !.correct = {}]))
  ELSE e

jumpToNoteGroup(e, index) ==
  IF index >= 0 /\ index < Len(e.score)
  THEN LET position == getPositionForNoteGroupIndex(e.handler.seq, index)
           j == IF e.handler.present
                THEN (IF position >= 0 THEN [e EXCEPT !.pos = position] ELSE e)
                ELSE [e EXCEPT !.pos = index]
       IN notifyProgress(skipEmptyGroups([j EXCEPT !.cur = index, !.pressed = {},
                                                   !.correct = {}]))
  ELSE e

handleNoteOn(e, midiNote) ==
  IF ~e.isPlaying THEN e
  ELSE notifyProgress(checkProgress([e EXCEPT !.pressed = @ \cup {midiNote}]))

handleNoteOff(e, midiNote) ==
  notifyProgress([e EXCEPT !.pressed = @ \ {midiNote}, !.correct = @ \ {midiNote}])

\* getCurrentMeasure(): score[i].measureIndex + 1, each note-group lying in a
\* measure of its own; reading measureIndex of score[-1], which is
\* undefined, throws a TypeError.
getCurrentMeasure(e) ==
  IF e.cur >= Len(e.score)
  THEN [throws |-> FALSE, value |-> IF Len(e.score) > 0 THEN (Len(e.score) - 1) + 1 ELSE 0]
  ELSE IF e.cur < 0 THEN [throws |-> TRUE, value |-> 0]
  ELSE [throws |-> FALSE, value |-> e.cur + 1]

\* Math.round((currentNoteGroupIndex / score.length) * 100), Math.round
\* taking halves upward.
getProgress(e) ==
  IF Len(e.score) = 0 THEN 0
  ELSE (200 * e.cur + Len(e.score)) \div (2 * Len(e.score))

\* The body of a timer scheduled by scheduleNextAutoPlay.
autoAdvanceTimer(e) == IF e.isPlaying THEN checkProgress(e) ELSE e

----------------------------------------------------------------------------
(* PlaybackEngine (the repeat-aware class)                                 *)

PbNote(p, d, tied) ==
  [pitch |-> p, duration |-> d, isTied |-> tied,
   isTieContinuation |-> FALSE, totalDuration |-> 0]

\* A total that stays at the duration of the first note of the chain.
tieTotalOwn(ngs, pitch, j, total) == total

\* The j loop of calculateTiedNoteDurations: the durations of the tied notes
\* of this pitch in the groups j.., up to the first untied one.
RECURSIVE tieTotal(_, _, _, _)
tieTotal(ngs, pitch, j, total) ==
  IF j > Len(ngs) THEN total
  ELSE LET t == FirstIndex({n \in 1..Len(ngs[j].notes) : ngs[j].notes[n].pitch = pitch})
       IN IF t = 0 THEN tieTotal(ngs, pitch, j + 1, total)
          ELSE IF ngs[j].notes[t].isTied
          THEN tieTotal(ngs, pitch, j + 1, total + ngs[j].notes[t].duration)
          ELSE total

\* The i loop and the loop over the notes of group i; activeTies is the set
\* of pitches of the map of that name.
RECURSIVE tieScan(_, _, _, _)
tieScan(ngs, activeTies, i, n) ==
  IF i > Len(ngs) THEN ngs
  ELSE IF n > Len(ngs[i].notes) THEN tieScan(ngs, activeTies, i + 1, 1)
  ELSE LET note == ngs[i].notes[n] IN
       IF note.isTied
       THEN IF note.pitch \in activeTies
            THEN tieScan([ngs EXCEPT ![i].notes[n].isTieContinuation = TRUE],
                         activeTies, i, n + 1)
            ELSE tieScan([ngs EXCEPT ![i].notes[n].totalDuration =
                                        tieTotal(ngs, note.pitch, i + 1, note.duration)],
                         activeTies \cup {note.pitch}, i, n + 1)
       ELSE tieScan(ngs, activeTies \ {note.pitch}, i, n + 1)

\* A pre-computation whose activeTies map outlives the call: the pitches of
\* the origins marked by an earlier run are still in it.
calculateWithKeptTies(ngs) ==
  tieScan(ngs,
          UNION { { ngs[i].notes[n].pitch :
                      n \in { k \in 1..Len(ngs[i].notes) :
                                ngs[i].notes[k].totalDuration # 0 } } :
                  i \in 1..Len(ngs) },
          1, 1)

calculateTiedNoteDurations(ngs) == tieScan(ngs, {}, 1, 1)

\* The engine's fields as one record. tasks holds what the event loop still
\* owes the engine: a playNextGroup call suspended in
\* await soundHandler.playNote(...) (kind "await": g the note-group being
\* sounded, k the next note of it) or a timer made by setTimeout (kind
\* "timer": current tells whether timeoutId still names it). stale marks the
\* tasks of a chain that was running when stop() or pause() was called.
PB ==
  [ngs |-> pbNoteGroups, handler |-> pbHandler, isPlaying |-> pbIsPlaying,
   pos |-> pbPos, timeoutSet |-> pbTimeoutSet, tempo |-> pbTempo,
   tempoMultiplier |-> pbTempoMultiplier, tasks |-> pbTasks, events |-> <<>>]

AwaitTask(g, k, stale) ==
  [kind |-> "await", g |-> g, k |-> k, current |-> FALSE, stale |-> stale]
TimerTask(stale) ==
  [kind |-> "timer", g |-> -1, k |-> 0, current |-> TRUE, stale |-> stale]

pbSequenceLength(e) ==
  IF e.handler.present THEN getSequenceLength(e.handler.seq) ELSE Len(e.ngs)

\* The lookup that hands back the playback position itself.
pbPlaybackPosition(e, position) == position

pbNoteGroupIndex(e, position) ==
  IF e.handler.present
  THEN getNoteGroupIndexForPosition(e.handler.seq, position)
  ELSE position

pbEmit(e, event) == [e EXCEPT !.events = Append(@, event)]

\* clearTimeout(this.timeoutId); this.timeoutId = null
clearPendingTimeout(e) ==
  IF e.timeoutSet
  THEN [e EXCEPT !.timeoutSet = FALSE,
                 !.tasks = [t \in {x \in DOMAIN e.tasks : ~x.current} |-> e.tasks[t]]]
  ELSE e

\* this.timeoutId = window.setTimeout(() => this.playNextGroup(), delay): the
\* timer timeoutId named before is no longer the one it names.
setNextTimeout(e, stale) ==
  LET Old(t) == [t EXCEPT !.current = FALSE]
      olds == { Old(t) : t \in DOMAIN e.tasks }
      kept == [t \in olds |->
                 (IF t \in DOMAIN e.tasks THEN e.tasks[t] ELSE 0)
                 + (IF t.kind = "timer" /\ [t EXCEPT !.current = TRUE] \in DOMAIN e.tasks
                    THEN e.tasks[[t EXCEPT !.current = TRUE]] ELSE 0)]
  IN [e EXCEPT !.timeoutSet = TRUE, !.tasks = kept (+) SetToBag({TimerTask(stale)})]

pbStop(e) ==
  pbEmit(clearPendingTimeout([e EXCEPT !.isPlaying = FALSE]), [type |-> "stopAll"])

pbPause(e) == clearPendingTimeout([e EXCEPT !.isPlaying = FALSE])

\* this.tempo after loadScore().
PlaybackDefaultTempo == 120

\* A tempo lookup that ignores the tempo of the note-group.
pbEngineTempo(e, noteGroupIndex) == e.tempo

\* const tempo = currentGroup.tempo || this.tempo (a group without a tempo
\* carries 0). No step changes this.tempo while a score plays, so the local
\* that playNextGroup keeps across its await is this value.
pbGroupTempo(e, noteGroupIndex) ==
  IF e.ngs[noteGroupIndex + 1].tempo # 0 THEN e.ngs[noteGroupIndex + 1].tempo
  ELSE e.tempo

\* length * msPerQuarterNote * 4 / this.tempoMultiplier, in milliseconds, for
\* a length given in hundredths of a whole note (msPerQuarterNote is
\* 60000 / tempo; the multiplier is kept in hundredths as well).
lengthInMs(e, hundredths, tempo) ==
  (hundredths * (60000 \div tempo) * 4) \div e.tempoMultiplier

\* (note as any).totalDuration || note.duration
pbPlayDuration(note) ==
  IF note.totalDuration # 0 THEN note.totalDuration ELSE note.duration

\* The longest totalDuration || duration of the notes of a group, from 0.
longestDuration(noteGroup) ==
  Max({ pbPlayDuration(noteGroup.notes[n]) : n \in 1..Len(noteGroup.notes) } \cup {0})

\* The fallback length in hundredths: the shortest duration of the notes of
\* the group (activeNotes is cleared by play() and stop() and never added
\* to, so no tied note is left out), 0.01 for a group without notes.
shortestDuration(noteGroup) ==
  IF Len(noteGroup.notes) = 0 THEN 1
  ELSE 100 * Min({ noteGroup.notes[n].duration : n \in 1..Len(noteGroup.notes) })

\* A jump test that only sees backward steps.
isBackwardJump(noteGroupIndex, nextNoteGroupIndex) ==
  nextNoteGroupIndex < noteGroupIndex

\* const isJump = (nextNoteGroupIndex !== noteGroupIndex + 1)
isJump(noteGroupIndex, nextNoteGroupIndex) ==
  nextNoteGroupIndex # noteGroupIndex + 1

\* The delay playNextGroup computes after sounding the group noteGroupIndex,
\* in milliseconds. A group without absoluteTime carries -1.
nextGroupDelay(e, noteGroupIndex) ==
  LET currentGroup == e.ngs[noteGroupIndex + 1]
      tempo == pbGroupTempo(e, noteGroupIndex)
      nextPlaybackPosition == e.pos + 1
      nextNoteGroupIndex ==
        IF e.handler.present
        THEN getNoteGroupIndexForPosition(e.handler.seq, nextPlaybackPosition)
        ELSE nextPlaybackPosition
  IN IF nextPlaybackPosition >= (IF e.handler.present
                                 THEN getSequenceLength(e.handler.seq) ELSE Len(e.ngs))
     THEN 0
     ELSE IF nextNoteGroupIndex < 0 \/ nextNoteGroupIndex >= Len(e.ngs) THEN 0
     ELSE LET nextGroup == e.ngs[nextNoteGroupIndex + 1] IN
          IF currentGroup.absoluteTime # -1 /\ nextGroup.absoluteTime # -1
          THEN IF isJump(noteGroupIndex, nextNoteGroupIndex)
               THEN lengthInMs(e, 100 * longestDuration(currentGroup), tempo)
               ELSE lengthInMs(e, 100 * (nextGroup.absoluteTime - currentGroup.absoluteTime),
                               tempo)
          ELSE lengthInMs(e, shortestDuration(currentGroup), tempo)

\* playNextGroup after the await of playNoteGroupWithTies: the delay is
\* computed, the cursor advances and the next call is scheduled.
scheduleNextGroup(e, noteGroupIndex, stale) ==
  setNextTimeout([pbEmit(e, [type |-> "setTimeout", noteGroupIndex |-> noteGroupIndex,
                             delay |-> nextGroupDelay(e, noteGroupIndex)])
                    EXCEPT !.pos = @ + 1], stale)

\* SoundHandler.playNote(pitch, duration, velocity): the note is played; the
\* promise it returns settles later. The duration is kept in milliseconds.
playNote(e, pitch, duration) ==
  pbEmit(e, [type |-> "playNote", pitch |-> pitch, duration |-> duration])

\* A sounding that hands every note of the group to the sound handler.
playEveryNote(e, g, k, stale) ==
  IF k > Len(e.ngs[g + 1].notes) THEN scheduleNextGroup(e, g, stale)
  ELSE LET note == e.ngs[g + 1].notes[k] IN
       [playNote(e, note.pitch,
                 lengthInMs(e, 100 * pbPlayDuration(note), pbGroupTempo(e, g)))
          EXCEPT !.tasks = @ (+) SetToBag({AwaitTask(g, k + 1, stale)})]

\* playNoteGroupWithTies from note k of group g on: the first note that is no
\* tie continuation is handed to the sound handler and the call suspends in
\* the await; with no such note left the caller goes on at once.
RECURSIVE playNoteGroupWithTies(_, _, _, _)
playNoteGroupWithTies(e, g, k, stale) ==
  IF k > Len(e.ngs[g + 1].notes) THEN scheduleNextGroup(e, g, stale)
  ELSE LET note == e.ngs[g + 1].notes[k] IN
       IF note.isTieContinuation
       THEN playNoteGroupWithTies(e, g, k + 1, stale)
       ELSE [playNote(e, note.pitch,
                      lengthInMs(e, 100 * pbPlayDuration(note), pbGroupTempo(e, g)))
               EXCEPT !.tasks = @ (+) SetToBag({AwaitTask(g, k + 1, stale)})]

\* playNextGroup up to its first suspension.
RECURSIVE playNextGroup(_, _)
playNextGroup(e, stale) ==
  IF ~e.isPlaying \/ e.pos >= pbSequenceLength(e)
  THEN pbEmit(pbStop(e), [type |-> "complete"])
  ELSE LET noteGroupIndex == pbNoteGroupIndex(e, e.pos) IN
       IF noteGroupIndex < 0 \/ noteGroupIndex >= Len(e.ngs)
       THEN playNextGroup([e EXCEPT !.pos = @ + 1], stale)
       ELSE playNoteGroupWithTies(
              pbEmit(pbEmit(e, [type |-> "progress", index |-> noteGroupIndex]),
                     [type |-> "sound", index |-> noteGroupIndex]),
              noteGroupIndex, 1, stale)

play(e, startIndex) ==
  IF e.isPlaying THEN e
  ELSE playNextGroup([e EXCEPT !.isPlaying = TRUE, !.pos = startIndex,
                               !.ngs = calculateTiedNoteDurations(@)], FALSE)

resume(e) ==
  IF ~e.isPlaying /\ e.pos < pbSequenceLength(e) THEN play(e, e.pos) ELSE e

\* setTempoMultiplier(multiplier)
setTempoMultiplier(e, multiplier) == [e EXCEPT !.tempoMultiplier = multiplier]

\* The record of a run: log holds what the run reported and sounded since
\* play(start); clean tells that nothing interrupted the run, whole that the
\* log is complete (the run was stopped or paused once at most), resumed
\* that resume() has gone on with it.
NoRun ==
  [clean |-> FALSE, whole |-> FALSE, resumed |-> FALSE, start |-> 0, log |-> <<>>,
   sounded |-> 0]

\* new PlaybackEngine(soundHandler)
PlaybackConstructed ==
  /\ pbNoteGroups = <<>>
  /\ pbHandler = NoHandler
  /\ pbIsPlaying = FALSE
  /\ pbPos = 0
  /\ pbTimeoutSet = FALSE
  /\ pbTempo = PlaybackDefaultTempo
  /\ pbTempoMultiplier = 100
  /\ pbTasks = EmptyBag
  /\ pbEvents = <<>>
  /\ pbLastOp = [op |-> "new", stale |-> FALSE]
  /\ pbRun = NoRun

----------------------------------------------------------------------------
(* The practice-engine specification                                       *)

\* The scores and repeat handlers loadScore is given: every score of at most
\* MaxScoreLen groups, each group in a measure of its own, with no handler,
\* or with the handler built for that score without repeat marks or with a
\* backward repeat on its last measure.
PracticeScores == UNION { [1..n -> GroupKinds] : n \in 0..MaxScoreLen }

ScoreHandlers(noteGroups) ==
  {NoHandler} \cup
  { Handler(buildPlaybackSequence([m \in 1..Len(noteGroups) |->
                      [rs |-> FALSE, re |-> (m = r), ve |-> FALSE, idx |-> {}]],
                   [g \in 1..Len(noteGroups) |-> g - 1])) :
      r \in {0, Len(noteGroups)} }

Op(name, arg) == [op |-> name, arg |-> arg, from |-> pePos]

\* new PracticeEngine()
PracticeConstructed ==
  /\ peScore = <<>>
  /\ peHandler = NoHandler
  /\ pePos = 0
  /\ peCur = 0
  /\ pePressed = {}
  /\ peCorrect = {}
  /\ peIsPlaying = FALSE
  /\ peMode = "both"
  /\ peTimers = 0
  /\ peStaleTimers = 0
  /\ peEvents = <<>>
  /\ peLastOp = [op |-> "new", arg |-> 0, from |-> 0]
  /\ peCompleted = FALSE

\* The engine after an operation: its fields, the timers the operation
\* scheduled, and the callbacks it invoked.
PracticeResult(e, op) ==
  /\ peTimers + peStaleTimers + e.scheduled <= MaxTimers
  /\ peScore' = e.score
  /\ peHandler' = e.handler
  /\ pePos' = e.pos
  /\ peCur' = e.cur
  /\ pePressed' = e.pressed
  /\ peCorrect' = e.correct
  /\ peIsPlaying' = e.isPlaying
  /\ peMode' = e.mode
  /\ peEvents' = e.events
  /\ peLastOp' = op

Fired(events, type) == \E i \in 1..Len(events) : events[i].type = type

\* loadScore is called again for the score on display (PracticeInit covers
\* the load of every other score and handler).
PeLoadScore ==
  /\ PracticeResult(loadScore(PE, peScore, peHandler), Op("loadScore", Len(peScore)))
  /\ peCompleted' = FALSE
  /\ UNCHANGED <<peTimers, peStaleTimers>>
  /\ UNCHANGED <<rhVars, pbVars>>

PeSetPracticeMode ==
  \E mode \in PracticeModes :
    /\ PracticeResult(setPracticeMode(PE, mode), Op("setPracticeMode", mode))
    /\ peCompleted' = FALSE
    /\ UNCHANGED <<peTimers, peStaleTimers>>
    /\ UNCHANGED <<rhVars, pbVars>>

PeStart ==
  /\ PracticeResult(start(PE), Op("start", 0))
  /\ UNCHANGED <<peTimers, peStaleTimers, peCompleted>>
  /\ UNCHANGED <<rhVars, pbVars>>

PePause ==
  /\ PracticeResult(pause(PE), Op("pause", 0))
  /\ peTimers' = 0
  /\ peStaleTimers' = peStaleTimers + peTimers
  /\ UNCHANGED peCompleted
  /\ UNCHANGED <<rhVars, pbVars>>

PeReset ==
  /\ PracticeResult(reset(PE), Op("reset", 0))
  /\ peCompleted' = FALSE
  /\ UNCHANGED <<peTimers, peStaleTimers>>
  /\ UNCHANGED <<rhVars, pbVars>>

PeJumpToNoteGroup ==
  \E index \in -1..Len(peScore) :
    /\ PracticeResult(jumpToNoteGroup(PE, index), Op("jumpToNoteGroup", index))
    /\ peCompleted' = (peCompleted /\ ~(index >= 0 /\ index < Len(peScore)))
    /\ UNCHANGED <<peTimers, peStaleTimers>>
    /\ UNCHANGED <<rhVars, pbVars>>

PeHandleNoteOn ==
  \E midiNote \in Pitches :
    LET e == handleNoteOn(PE, midiNote) IN
    /\ PracticeResult(e, Op("handleNoteOn", midiNote))
    /\ peTimers' = peTimers + e.scheduled
    /\ peCompleted' = (peCompleted \/ Fired(e.events, "complete"))
    /\ UNCHANGED peStaleTimers
    /\ UNCHANGED <<rhVars, pbVars>>

PeHandleNoteOff ==
  \E midiNote \in Pitches :
    /\ PracticeResult(handleNoteOff(PE, midiNote), Op("handleNoteOff", midiNote))
    /\ UNCHANGED <<peTimers, peStaleTimers, peCompleted>>
    /\ UNCHANGED <<rhVars, pbVars>>

\* A pending timer fires; stale tells whether it was scheduled before the
\* latest pause().
PeTimerFires ==
  \E stale \in BOOLEAN :
    LET e == autoAdvanceTimer(PE) IN
    /\ IF stale THEN peStaleTimers > 0 ELSE peTimers > 0
    /\ PracticeResult(e, Op("timer", stale))
    /\ peTimers' = (IF stale THEN peTimers ELSE peTimers - 1) + e.scheduled
    /\ peStaleTimers' = IF stale THEN peStaleTimers - 1 ELSE peStaleTimers
    /\ peCompleted' = (peCompleted \/ Fired(e.events, "complete"))
    /\ UNCHANGED <<rhVars, pbVars>>

RepeatIdle ==
  /\ sourceMeasures = <<>>
  /\ rhNoteGroups = <<>>
  /\ playbackSequence = <<>>
  /\ rhBuilt = FALSE
  /\ rhLookup = NoLookup

\* The engine right after loadScore(noteGroups, repeatHandler). loadScore
\* leaves isPlaying and the practice mode as earlier use of the engine left
\* them, so these start at any value.
PracticeInit ==
  /\ RepeatIdle
  /\ PlaybackConstructed
  /\ \E noteGroups \in PracticeScores : \E h \in ScoreHandlers(noteGroups) :
     \E playing \in BOOLEAN, mode \in PracticeModes :
       LET e == loadScore([score |-> <<>>, handler |-> NoHandler, pos |-> 0,
                           cur |-> 0, pressed |-> {}, correct |-> {},
                           isPlaying |-> playing, mode |-> mode,
                           scheduled |-> 0, events |-> <<>>], noteGroups, h)
       IN /\ peScore = e.score
          /\ peHandler = e.handler
          /\ pePos = e.pos
          /\ peCur = e.cur
          /\ pePressed = e.pressed
          /\ peCorrect = e.correct
          /\ peIsPlaying = e.isPlaying
          /\ peMode = e.mode
          /\ peEvents = e.events
  /\ peTimers = 0
  /\ peStaleTimers = 0
  /\ peLastOp = [op |-> "loadScore", arg |-> Len(peScore), from |-> 0]
  /\ peCompleted = FALSE

PracticeNext ==
  \/ PeLoadScore
  \/ PeSetPracticeMode
  \/ PeStart
  \/ PePause
  \/ PeReset
  \/ PeJumpToNoteGroup
  \/ PeHandleNoteOn
  \/ PeHandleNoteOff
  \/ PeTimerFires

SpecPractice == PracticeInit /\ [][PracticeNext]_vars

----------------------------------------------------------------------------
(* The practice engine on a score whose playback sequence leaves out a     *)
(* note-group                                                              *)

\* Three measures: the first begins a repeat, the second begins a volta 1,
\* and no measure ends a repeat. The sequence built for them plays measures
\* 0, 1, 0 and never refers to the note-group of the last measure.
VoltaWithoutRepeatEnd ==
  << [rs |-> TRUE, re |-> FALSE, ve |-> FALSE, idx |-> {}],
     [rs |-> FALSE, re |-> FALSE, ve |-> TRUE, idx |-> {1}],
     [rs |-> FALSE, re |-> FALSE, ve |-> FALSE, idx |-> {}] >>

\* The scores of these measures, one note-group in each.
GapScores == [1..Len(VoltaWithoutRepeatEnd) -> GroupKinds]

GapHandler(noteGroups) ==
  Handler(buildPlaybackSequence(VoltaWithoutRepeatEnd,
                                [g \in 1..Len(noteGroups) |-> g - 1]))

\* The engine right after loadScore(noteGroups, repeatHandler) for such a
\* score.
PracticeGapInit ==
  /\ RepeatIdle
  /\ PlaybackConstructed
  /\ \E noteGroups \in GapScores :
     \E playing \in BOOLEAN, mode \in PracticeModes :
       LET e == loadScore([score |-> <<>>, handler |-> NoHandler, pos |-> 0,
                           cur |-> 0, pressed |-> {}, correct |-> {},
                           isPlaying |-> playing, mode |-> mode,
                           scheduled |-> 0, events |-> <<>>],
                          noteGroups, GapHandler(noteGroups))
       IN /\ peScore = e.score
          /\ peHandler = e.handler
          /\ pePos = e.pos
          /\ peCur = e.cur
          /\ pePressed = e.pressed
          /\ peCorrect = e.correct
          /\ peIsPlaying = e.isPlaying
          /\ peMode = e.mode
          /\ peEvents = e.events
  /\ peTimers = 0
  /\ peStaleTimers = 0
  /\ peLastOp = [op |-> "loadScore", arg |-> Len(peScore), from |-> 0]
  /\ peCompleted = FALSE

PracticeGapNext ==
  \/ PeLoadScore
  \/ PeSetPracticeMode
  \/ PeStart
  \/ PePause
  \/ PeReset
  \/ PeJumpToNoteGroup
  \/ PeHandleNoteOn
  \/ PeHandleNoteOff
  \/ PeTimerFires

SpecPracticeGap == PracticeGapInit /\ [][PracticeGapNext]_vars

----------------------------------------------------------------------------
(* The practice engine with timers that are sure to fire                   *)

\* A pending timer fires. Its callback runs after the timer has left the
\* pending ones, so the timer the callback schedules takes the place of the
\* one that fired.
PeTimerRuns ==
  \E stale \in BOOLEAN :
    LET e == autoAdvanceTimer(PE) IN
    /\ IF stale THEN peStaleTimers > 0 ELSE peTimers > 0
    /\ PracticeResult([e EXCEPT !.scheduled = 0], Op("timer", stale))
    /\ peTimers' = (IF stale THEN peTimers ELSE peTimers - 1) + e.scheduled
    /\ peStaleTimers' = IF stale THEN peStaleTimers - 1 ELSE peStaleTimers
    /\ peCompleted' = (peCompleted \/ Fired(e.events, "complete"))
    /\ UNCHANGED <<rhVars, pbVars>>

PracticeLiveNext ==
  \/ PeLoadScore
  \/ PeSetPracticeMode
  \/ PeStart
  \/ PePause
  \/ PeReset
  \/ PeJumpToNoteGroup
  \/ PeHandleNoteOn
  \/ PeHandleNoteOff
  \/ PeTimerRuns

\* The browser runs every timer whose delay has passed.
SpecPracticeLive ==
  PracticeInit /\ [][PracticeLiveNext]_vars /\ WF_vars(PeTimerRuns)

----------------------------------------------------------------------------
(* The playback-engine specification                                       *)

\* The note-groups of a playback score: a single note, a single tied note, or
\* a chord of two notes, with the tempo of the group (0 for none).
PlaybackGroupKinds ==
  { [notes |-> <<PbNote(60, 1, FALSE)>>, tempo |-> 0],
    [notes |-> <<PbNote(60, 1, TRUE)>>, tempo |-> 60],
    [notes |-> <<PbNote(60, 1, FALSE), PbNote(62, 2, FALSE)>>, tempo |-> 120] }

\* The score renderer gives every note-group its absoluteTime: here the
\* groups follow each other at one whole note.
timedScore(groups) ==
  [i \in 1..Len(groups) |->
     [notes |-> groups[i].notes, tempo |-> groups[i].tempo, absoluteTime |-> i - 1]]

PlaybackScores ==
  { timedScore(groups) :
      groups \in UNION { [1..n -> PlaybackGroupKinds] : n \in 0..MaxPlaybackLen } }

\* The engine is loaded without a repeat handler, or with the handler built
\* for the score with a backward repeat on its last measure (each group in a
\* measure of its own).
PlaybackHandlers(noteGroups) ==
  { NoHandler,
    Handler(buildPlaybackSequence(
              [m \in 1..Len(noteGroups) |->
                 [rs |-> FALSE, re |-> (m = Len(noteGroups)), ve |-> FALSE, idx |-> {}]],
              [g \in 1..Len(noteGroups) |-> g - 1])) }

PbOp(name, stale) == [op |-> name, stale |-> stale]

\* The progress, sound and completion events of a step, in order.
RECURSIVE runEvents(_)
runEvents(events) ==
  IF events = <<>> THEN <<>>
  ELSE (IF Head(events).type \in {"progress", "sound", "complete"}
        THEN <<Head(events)>> ELSE <<>>) \o runEvents(Tail(events))

\* The longest duration handed to the sound handler for the group being
\* sounded, after the events of a step: a new group starts from 0.
RECURSIVE soundedAfter(_, _)
soundedAfter(sounded, events) ==
  IF events = <<>> THEN sounded
  ELSE soundedAfter(IF Head(events).type = "sound" THEN 0
                    ELSE IF Head(events).type = "playNote"
                    THEN Max({sounded, Head(events).duration})
                    ELSE sounded,
                    Tail(events))

PlaybackResult(e, op) ==
  /\ BagCardinality(e.tasks) <= MaxChains
  /\ pbNoteGroups' = e.ngs
  /\ pbHandler' = e.handler
  /\ pbIsPlaying' = e.isPlaying
  /\ pbPos' = e.pos
  /\ pbTimeoutSet' = e.timeoutSet
  /\ pbTempo' = e.tempo
  /\ pbTempoMultiplier' = e.tempoMultiplier
  /\ pbTasks' = e.tasks
  /\ pbEvents' = e.events
  /\ pbLastOp' = op

\* Every task alive at a stop() or pause() belongs to the chain it ends.
MarkStale(e) ==
  LET Marked(t) == [t EXCEPT !.stale = TRUE]
      marked == { Marked(t) : t \in DOMAIN e.tasks }
      Copies(t) == IF t \in DOMAIN e.tasks THEN e.tasks[t] ELSE 0
  IN [e EXCEPT !.tasks = [t \in marked |->
                            Copies(t) + Copies([t EXCEPT !.stale = FALSE])]]

\* A play() that starts the engine with nothing of an earlier chain left is
\* recorded; one that finds the engine playing changes nothing.
RunStarted(e, startIndex) ==
  IF pbIsPlaying THEN pbRun
  ELSE IF pbTasks = EmptyBag
  THEN [clean |-> TRUE, whole |-> TRUE, resumed |-> FALSE, start |-> startIndex,
        log |-> runEvents(e.events),
        sounded |-> soundedAfter(0, e.events)]
  ELSE NoRun

RunContinued(e) ==
  IF pbRun.clean
  THEN [pbRun EXCEPT !.log = @ \o runEvents(e.events),
                     !.sounded = soundedAfter(@, e.events)]
  ELSE IF pbRun.whole
  THEN [pbRun EXCEPT !.log = @ \o runEvents(e.events)]
  ELSE pbRun

\* stop() or pause() interrupts the run for the first time; its record is
\* kept for a resume().
RunInterrupted == [pbRun EXCEPT !.clean = FALSE, !.sounded = 0]

\* resume() goes on with the interrupted run.
RunResumed(e) ==
  IF pbRun.whole /\ ~pbRun.clean
  THEN [pbRun EXCEPT !.log = @ \o runEvents(e.events), !.resumed = TRUE]
  ELSE RunStarted(e, pbPos)

PbPlay ==
  \E startIndex \in -1..pbSequenceLength(PB) :
    LET e == play(PB, startIndex) IN
    /\ PlaybackResult(e, PbOp("play", FALSE))
    /\ pbRun' = RunStarted(e, startIndex)
    /\ UNCHANGED <<rhVars, peVars>>

PbStop ==
  /\ PlaybackResult(MarkStale(pbStop(PB)), PbOp("stop", FALSE))
  /\ pbRun' = NoRun
  /\ UNCHANGED <<rhVars, peVars>>

PbPause ==
  /\ PlaybackResult(MarkStale(pbPause(PB)), PbOp("pause", FALSE))
  /\ pbRun' = NoRun
  /\ UNCHANGED <<rhVars, peVars>>

PbResume ==
  LET e == resume(PB) IN
  /\ PlaybackResult(e, PbOp("resume", FALSE))
  /\ pbRun' = IF e = PB THEN pbRun ELSE RunResumed(e)
  /\ UNCHANGED <<rhVars, peVars>>

\* The promise of soundHandler.playNote settles and the suspended
\* playNoteGroupWithTies goes on with the next note of its group.
PbSoundResolves ==
  \E t \in DOMAIN pbTasks :
    /\ t.kind = "await"
    /\ LET e == playNoteGroupWithTies([PB EXCEPT !.tasks = @ (-) SetToBag({t})],
                                      t.g, t.k, t.stale)
       IN /\ PlaybackResult(e, PbOp("soundResolves", t.stale))
          /\ pbRun' = RunContinued(e)
    /\ UNCHANGED <<rhVars, peVars>>

\* A timer made by setTimeout fires and calls playNextGroup.
PbTimerFires ==
  \E t \in DOMAIN pbTasks :
    /\ t.kind = "timer"
    /\ LET e == playNextGroup([PB EXCEPT !.tasks = @ (-) SetToBag({t})], t.stale)
       IN /\ PlaybackResult(e, PbOp("timer", t.stale))
          /\ pbRun' = RunContinued(e)
    /\ UNCHANGED <<rhVars, peVars>>

\* The engine right after loadScore(noteGroups, repeatHandler) on a new
\* engine.
PlaybackInit ==
  /\ RepeatIdle
  /\ PracticeConstructed
  /\ pbNoteGroups \in PlaybackScores
  /\ pbHandler \in PlaybackHandlers(pbNoteGroups)
  /\ pbIsPlaying = FALSE
  /\ pbPos = 0
  /\ pbTimeoutSet = FALSE
  /\ pbTempo = PlaybackDefaultTempo
  /\ pbTempoMultiplier = 100
  /\ pbTasks = EmptyBag
  /\ pbEvents = <<>>
  /\ pbLastOp = [op |-> "loadScore", stale |-> FALSE]
  /\ pbRun = NoRun

PlaybackNext ==
  \/ PbPlay
  \/ PbStop
  \/ PbPause
  \/ PbResume
  \/ PbSoundResolves
  \/ PbTimerFires

SpecPlayback == PlaybackInit /\ [][PlaybackNext]_vars

----------------------------------------------------------------------------
(* The resume specification: a run is stopped or paused once and resumed,  *)
(* and the record of what it reported and sounded is kept across the       *)
(* interruption.                                                           *)

\* stop() while an uninterrupted run is in progress.
PbStopRun ==
  /\ pbRun.clean
  /\ PlaybackResult(MarkStale(pbStop(PB)), PbOp("stop", FALSE))
  /\ pbRun' = RunInterrupted
  /\ UNCHANGED <<rhVars, peVars>>

\* pause() while an uninterrupted run is in progress.
PbPauseRun ==
  /\ pbRun.clean
  /\ PlaybackResult(MarkStale(pbPause(PB)), PbOp("pause", FALSE))
  /\ pbRun' = RunInterrupted
  /\ UNCHANGED <<rhVars, peVars>>

ResumeNext ==
  \/ PbPlay
  \/ PbStopRun
  \/ PbPauseRun
  \/ PbResume
  \/ PbSoundResolves
  \/ PbTimerFires

SpecResume == PlaybackInit /\ [][ResumeNext]_vars

----------------------------------------------------------------------------
(* The playback-timing specification: a loaded score is played through     *)
(* while the tempo slider is moved.                                        *)

\* The positions of the tempo slider explored: 0.5x and 1.0x.
TempoMultipliers == {50, 100}

\* The tempo the application hands to setTempo() after loadScore().
ScoreTempos == {60, PlaybackDefaultTempo}

\* The slider's input event: setTempoMultiplier(multiplier).
PbSetTempoMultiplier ==
  \E multiplier \in TempoMultipliers :
    /\ PlaybackResult(setTempoMultiplier(PB, multiplier),
                      PbOp("setTempoMultiplier", FALSE))
    /\ UNCHANGED pbRun
    /\ UNCHANGED <<rhVars, peVars>>

\* The engine after loadScore(noteGroups, repeatHandler), setTempo(tempo) and
\* setTempoMultiplier(multiplier).
TimingInit ==
  /\ RepeatIdle
  /\ PracticeConstructed
  /\ pbNoteGroups \in PlaybackScores
  /\ pbHandler \in PlaybackHandlers(pbNoteGroups)
  /\ pbIsPlaying = FALSE
  /\ pbPos = 0
  /\ pbTimeoutSet = FALSE
  /\ pbTempo \in ScoreTempos
  /\ pbTempoMultiplier \in TempoMultipliers
  /\ pbTasks = EmptyBag
  /\ pbEvents = <<>>
  /\ pbLastOp = [op |-> "loadScore", stale |-> FALSE]
  /\ pbRun = NoRun

TimingNext ==
  \/ PbPlay
  \/ PbSetTempoMultiplier
  \/ PbSoundResolves
  \/ PbTimerFires

SpecTiming == TimingInit /\ [][TimingNext]_vars

----------------------------------------------------------------------------
(* The tie specification: scores with tied notes are played through, and   *)
(* played again.                                                           *)

\* The note-groups of a score with ties, durations in quarter notes: pitch 60
\* tied (one or two quarters) or untied, a group without pitch 60, and pitch
\* 60 tied together with a tied pitch 62.
TieGroupKinds ==
  { [notes |-> <<PbNote(60, 1, TRUE)>>, tempo |-> 0],
    [notes |-> <<PbNote(60, 2, TRUE)>>, tempo |-> 0],
    [notes |-> <<PbNote(60, 1, FALSE)>>, tempo |-> 0],
    [notes |-> <<PbNote(62, 1, FALSE)>>, tempo |-> 0],
    [notes |-> <<PbNote(60, 1, TRUE), PbNote(62, 1, TRUE)>>, tempo |-> 0] }

TieScores ==
  { timedScore(groups) :
      groups \in UNION { [1..n -> TieGroupKinds] : n \in 0..MaxTieLen } }

\* The engine right after loadScore(noteGroups) on a new engine.
TiesInit ==
  /\ RepeatIdle
  /\ PracticeConstructed
  /\ pbNoteGroups \in TieScores
  /\ pbHandler = NoHandler
  /\ pbIsPlaying = FALSE
  /\ pbPos = 0
  /\ pbTimeoutSet = FALSE
  /\ pbTempo = PlaybackDefaultTempo
  /\ pbTempoMultiplier = 100
  /\ pbTasks = EmptyBag
  /\ pbEvents = <<>>
  /\ pbLastOp = [op |-> "loadScore", stale |-> FALSE]
  /\ pbRun = NoRun

TiesNext ==
  \/ PbPlay
  \/ PbSoundResolves
  \/ PbTimerFires

SpecTies == TiesInit /\ [][TiesNext]_vars

----------------------------------------------------------------------------
(* The repeat-handler specification: a parsed score is handed to           *)
(* buildPlaybackSequence, then positions are looked up in the result.      *)

\* The measure index of every note-group, given the number of note-groups of
\* each measure (note-groups are stored in score order).
RECURSIVE layoutFrom(_, _)
layoutFrom(counts, m) ==
  IF m >= Len(counts) THEN <<>>
  ELSE [i \in 1..counts[m + 1] |-> m] \o layoutFrom(counts, m + 1)

\* Layouts of n measures: one note-group per measure, except that at most one
\* measure holds none or two.
Layouts(n) ==
  { layoutFrom([m \in 1..n |-> IF m = d THEN c ELSE 1], 0) :
      d \in 1..n, c \in 0..2 }

\* The worked example of the README: 12 measures, a forward repeat at measure
\* 3, a backward repeat and a volta 1 at measure 10, a volta 2 at measure 11
\* (1-indexed).
WorkedExampleMeasures ==
  [m \in 1..12 |->
     [rs |-> (m = 3), re |-> (m = 10), ve |-> (m \in {10, 11}),
      idx |-> IF m = 10 THEN {1} ELSE IF m = 11 THEN {2} ELSE {}]]

\* Its layouts: every measure holds one note-group, or one of them holds two.
WorkedExampleLayouts ==
  { layoutFrom([m \in 1..12 |-> IF m = d THEN 2 ELSE 1], 0) : d \in 0..12 }

RepeatInit ==
  /\ \/ \E n \in 1..MaxMeasures :
          /\ sourceMeasures \in [1..n -> MeasureFlags]
          /\ rhNoteGroups \in Layouts(n)
     \/ /\ sourceMeasures = WorkedExampleMeasures
        /\ rhNoteGroups \in WorkedExampleLayouts
  /\ playbackSequence = <<>>
  /\ rhBuilt = FALSE
  /\ rhLookup = NoLookup
  /\ PracticeConstructed
  /\ PlaybackConstructed

\* RepeatHandler.buildPlaybackSequence(osmd, noteGroups)
RhBuildPlaybackSequence ==
  /\ ~rhBuilt
  /\ playbackSequence' = buildPlaybackSequence(sourceMeasures, rhNoteGroups)
  /\ rhBuilt' = TRUE
  /\ UNCHANGED <<sourceMeasures, rhNoteGroups, rhLookup, peVars, pbVars>>

\* A position is translated to its note-group index and back, twice over.
RhLookupPosition ==
  /\ rhBuilt
  /\ rhLookup = NoLookup
  /\ \E p \in -1..Len(playbackSequence) :
       LET g == getNoteGroupIndexForPosition(playbackSequence, p)
           q == getPositionForNoteGroupIndex(playbackSequence, g)
           g2 == getNoteGroupIndexForPosition(playbackSequence, q)
       IN rhLookup' = [position |-> p, noteGroupIndex |-> g, first |-> q,
                       again |-> getPositionForNoteGroupIndex(playbackSequence, g2)]
  /\ UNCHANGED <<sourceMeasures, rhNoteGroups, playbackSequence, rhBuilt, peVars, pbVars>>

RepeatNext ==
  \/ RhBuildPlaybackSequence
  \/ RhLookupPosition

SpecRepeat == RepeatInit /\ [][RepeatNext]_vars

\* The 1-indexed measure order of a sequence, consecutive duplicates collapsed
\* (the order buildPlaybackSequence logs).
RECURSIVE measureOrder(_, _, _)
measureOrder(seq, i, lastMeasure) ==
  IF i > Len(seq) THEN <<>>
  ELSE (IF seq[i].measureIndex # lastMeasure THEN <<seq[i].measureIndex + 1>> ELSE <<>>)
       \o measureOrder(seq, i + 1, seq[i].measureIndex)

----------------------------------------------------------------------------
(* Properties of the playback sequence                                     *)

\* C1: for the worked example (12 measures with at least one note-group
\* each, a forward repeat at measure 3, a backward repeat and a volta 1 at
\* measure 10, a volta 2 at measure 11) the 1-indexed measure order of the
\* built sequence, consecutive duplicates collapsed, is
\* 1,2,3,4,5,6,7,8,9,10,3,4,5,6,7,8,9,11,12.
WorkedExampleOrder ==
  (rhBuilt /\ sourceMeasures = WorkedExampleMeasures) =>
    measureOrder(playbackSequence, 1, -1)
      = <<1, 2, 3, 4, 5, 6, 7, 8, 9, 10, 3, 4, 5, 6, 7, 8, 9, 11, 12>>

WorkedExampleBuilt ==
  /\ rhBuilt
  /\ sourceMeasures = WorkedExampleMeasures
  /\ Len(rhNoteGroups) = 13
  /\ Len(playbackSequence) > Len(rhNoteGroups)

NoRepeatMarks ==
  \A m \in 1..Len(sourceMeasures) : ~sourceMeasures[m].rs /\ ~sourceMeasures[m].re

\* C2: when no measure carries a repeat-start or repeat-end mark, the built
\* sequence has one step per note-group, and the step at position i refers to
\* note-group i in iteration 0, whatever volta flags the measures carry.
LinearWithoutRepeatMarks ==
  (rhBuilt /\ NoRepeatMarks) =>
    /\ Len(playbackSequence) = Len(rhNoteGroups)
    /\ \A i \in 1..Len(playbackSequence) :
         /\ playbackSequence[i].noteGroupIndex = i - 1
         /\ playbackSequence[i].repetitionIteration = 0

LinearBuiltDespiteVolta ==
  /\ rhBuilt
  /\ NoRepeatMarks
  /\ \E m \in 1..Len(sourceMeasures) : sourceMeasures[m].ve
  /\ Len(rhNoteGroups) >= 2
  /\ Len(playbackSequence) = Len(rhNoteGroups)

\* C9: for a valid position p, the position q that
\* getPositionForNoteGroupIndex returns for the note-group index of p is in
\* 0..p, refers to the same note-group, is the first position doing so, and
\* is returned again when the round trip starts from q.
FirstOccurrenceRoundTrip ==
  (rhLookup # NoLookup /\ rhLookup.position >= 0
     /\ rhLookup.position < Len(playbackSequence)) =>
    LET p == rhLookup.position
        q == rhLookup.first
    IN /\ 0 <= q /\ q <= p
       /\ playbackSequence[q + 1].noteGroupIndex = playbackSequence[p + 1].noteGroupIndex
       /\ \A r \in 0..(q - 1) :
            playbackSequence[r + 1].noteGroupIndex # playbackSequence[p + 1].noteGroupIndex
       /\ rhLookup.again = q

RepeatedPositionLookedUp ==
  /\ rhLookup # NoLookup
  /\ rhLookup.first >= 0
  /\ rhLookup.first < rhLookup.position
  /\ rhLookup.position < Len(playbackSequence)

\* The steps of one pass over the measures lo..hi of the score in hand: one
\* step per note-group of these measures, in score order, tagged iteration.
passOver(lo, hi, iteration) ==
  LET gs == { g \in 1..Len(rhNoteGroups) :
                rhNoteGroups[g] >= lo /\ rhNoteGroups[g] <= hi }
  IN [k \in 1..Cardinality(gs) |->
        [noteGroupIndex |-> Min(gs) + k - 2,
         measureIndex |-> rhNoteGroups[Min(gs) + k - 1],
         repetitionIteration |-> iteration]]

lastMeasure == Len(sourceMeasures) - 1

\* buildPlaybackSequence has returned and no position has been looked up yet.
JustBuilt == rhBuilt /\ rhLookup = NoLookup

\* Measure s starts a repeat and no later measure ends one.
OpenRepeatAt(s) ==
  /\ sourceMeasures[s + 1].rs
  /\ \A j \in (s + 1)..lastMeasure : ~sourceMeasures[j + 1].re

\* No repeat mark before measure s and no volta bracket after it.
OnlyRepeatFrom(s) ==
  /\ \A j \in 0..(s - 1) : ~sourceMeasures[j + 1].rs /\ ~sourceMeasures[j + 1].re
  /\ \A j \in (s + 1)..lastMeasure : ~sourceMeasures[j + 1].ve

previousRepeatEnd(e) ==
  Max({ j \in 0..(e - 1) : sourceMeasures[j + 1].re } \cup {-1})

\* Measure e ends a repeat that no repeat-start opened: e is not itself a
\* repeat-start, and no measure from the previous repeat-end on is one.
UnopenedRepeatEnd(e) ==
  /\ sourceMeasures[e + 1].re
  /\ ~sourceMeasures[e + 1].rs
  /\ \A t \in Max({previousRepeatEnd(e), 0})..(e - 1) : ~sourceMeasures[t + 1].rs

\* The sequence has the steps of block as one run, and no other step of the
\* measures lo..hi.
PlayedOnlyAs(block, lo, hi) ==
  \E k \in 0..Len(playbackSequence) :
    /\ k + Len(block) <= Len(playbackSequence)
    /\ SubSeq(playbackSequence, k + 1, k + Len(block)) = block
    /\ \A i \in 1..Len(playbackSequence) :
          (i <= k \/ i > k + Len(block))
          => (playbackSequence[i].measureIndex < lo \/ playbackSequence[i].measureIndex > hi)

\* C16: a repeat-end at measure e that no repeat-start opened yields the
\* section s..e, s being the measure after the previous section's end (0 if
\* there is none), and the measures s..e are played twice, as iterations 0
\* and 1.
ImplicitRepeatPlayedTwice ==
  rhBuilt =>
    \A e \in 0..lastMeasure :
      UnopenedRepeatEnd(e) =>
        LET s == previousRepeatEnd(e) + 1
            repeatInfo == parseRepetitionInstructions(sourceMeasures)
        IN /\ \E r \in 1..Len(repeatInfo) :
                 /\ repeatInfo[r].startMeasure = s
                 /\ repeatInfo[r].endMeasure = e
                 /\ repeatInfo[r].endings = <<>>
           /\ PlayedOnlyAs(passOver(s, e, 0) \o passOver(s, e, 1), s, e)

\* The endings of a section that list iteration k, by their place in
\* recording order.
voltasFor(section, k) ==
  { e \in 1..Len(section.endings) : k \in section.endings[e].iterations }

\* Measure 0 starts a repeat: the section recorded for it is the first of the
\* parse and the first one the expansion plays.
OpensWithRepeat == Len(sourceMeasures) > 0 /\ sourceMeasures[1].rs

\* Two endings of the section list the same iteration.
DuplicateVolta(section) ==
  \E k \in 1..2 : Cardinality(voltasFor(section, k)) >= 2

\* What a section starting at measure 0 emits when iteration k takes the
\* ending chosen[k] (0 for none): the measures before the earliest ending,
\* then that ending.
sectionPlay(section, chosen) ==
  LET ends == section.endings
      common == Min({ ends[e].startMeasure : e \in 1..Len(ends) }) - 1
      iterationPlay(k) ==
        passOver(0, common, k - 1)
        \o (IF chosen[k] = 0 THEN <<>>
            ELSE passOver(ends[chosen[k]].startMeasure, ends[chosen[k]].endMeasure, k - 1))
  IN iterationPlay(1) \o iterationPlay(2)

StartsWith(seq, block) ==
  Len(block) <= Len(seq) /\ SubSeq(seq, 1, Len(block)) = block

\* C17 (as stated): when two or more endings of a section list the same
\* iteration, the ending emitted in that iteration is the last of them in
\* recording order.
LastMatchingVoltaPlayed ==
  (JustBuilt /\ OpensWithRepeat) =>
    LET section == parseRepetitionInstructions(sourceMeasures)[1] IN
    DuplicateVolta(section) =>
      StartsWith(playbackSequence,
                 sectionPlay(section,
                             [k \in 1..2 |-> Max(voltasFor(section, k) \cup {0})]))

\* C17 (amended): when two or more endings of a section list the same
\* iteration, the ending emitted in that iteration is the first of them in
\* recording order.
FirstMatchingVoltaPlayed ==
  (JustBuilt /\ OpensWithRepeat) =>
    LET section == parseRepetitionInstructions(sourceMeasures)[1] IN
    DuplicateVolta(section) =>
      StartsWith(playbackSequence,
                 sectionPlay(section,
                             [k \in 1..2 |-> IF voltasFor(section, k) = {} THEN 0
                                              ELSE Min(voltasFor(section, k))]))

DuplicateVoltaBuilt ==
  /\ JustBuilt
  /\ OpensWithRepeat
  /\ LET section == parseRepetitionInstructions(sourceMeasures)[1] IN
     \E a, b \in voltasFor(section, 1) :
        /\ a < b
        /\ section.endings[a].endMeasure # section.endings[b].endMeasure
  /\ Len(playbackSequence) >= 3

\* Where the outer scan goes on after a section: the measure after the last
\* volta ending, or after the section end if the section has no endings.
resumeAfter(section) ==
  IF Len(section.endings) = 0 THEN section.endMeasure + 1
  ELSE Max({ section.endings[e].endMeasure : e \in 1..Len(section.endings) }) + 1

\* The sections the outer scan arrives at, scanning from measure cur on, by
\* their place in the parse.
RECURSIVE processedFrom(_, _)
processedFrom(repeatInfo, cur) ==
  IF cur > lastMeasure THEN {}
  ELSE LET found == { r \in 1..Len(repeatInfo) : repeatInfo[r].startMeasure = cur }
       IN IF found = {} THEN processedFrom(repeatInfo, cur + 1)
          ELSE {Min(found)}
               \cup processedFrom(repeatInfo, resumeAfter(repeatInfo[Min(found)]))

\* The steps of a sequence that belong to the measures lo..hi, in order.
RECURSIVE stepsWithin(_, _, _)
stepsWithin(seq, lo, hi) ==
  IF seq = <<>> THEN <<>>
  ELSE (IF Head(seq).measureIndex >= lo /\ Head(seq).measureIndex <= hi
        THEN <<Head(seq)>> ELSE <<>>) \o stepsWithin(Tail(seq), lo, hi)

\* Iteration k of a section when it takes the ending at place e of the
\* section's endings (0 for none): the common region (the section start up to
\* the measure before the earliest volta start) followed by that ending;
\* without endings, the measures from the section start to its end.
iterationWith(section, k, e) ==
  IF Len(section.endings) = 0
  THEN passOver(section.startMeasure, section.endMeasure, k - 1)
  ELSE passOver(section.startMeasure,
                Min({ section.endings[x].startMeasure :
                        x \in 1..Len(section.endings) }) - 1,
                k - 1)
       \o (IF e = 0 THEN <<>>
           ELSE passOver(section.endings[e].startMeasure,
                         section.endings[e].endMeasure, k - 1))

\* What iteration k of a section may emit: it takes one ending that lists k,
\* or none if no ending lists k.
iterationBlocks(section, k) ==
  IF voltasFor(section, k) = {} THEN { iterationWith(section, k, 0) }
  ELSE { iterationWith(section, k, e) : e \in voltasFor(section, k) }

\* C26: for every section the expansion processes, what the sequence holds
\* of the section's measures and endings is iteration 1 followed by
\* iteration 2, iteration k being the common region in ascending measure
\* order tagged k-1 followed by one ending that lists k and nothing else;
\* for a section without endings that is start..end, start..end.
SectionIterationsEmitted ==
  JustBuilt =>
    LET repeatInfo == parseRepetitionInstructions(sourceMeasures)
    IN \A r \in processedFrom(repeatInfo, 0) :
         LET section == repeatInfo[r]
         IN \E b1 \in iterationBlocks(section, 1) : \E b2 \in iterationBlocks(section, 2) :
              stepsWithin(playbackSequence, section.startMeasure,
                          resumeAfter(section) - 1) = b1 \o b2

TwoEndingsEmitted ==
  /\ JustBuilt
  /\ LET repeatInfo == parseRepetitionInstructions(sourceMeasures)
     IN \E r \in processedFrom(repeatInfo, 0) :
          /\ voltasFor(repeatInfo[r], 1) # {}
          /\ voltasFor(repeatInfo[r], 2) # {}
          /\ voltasFor(repeatInfo[r], 1) \cap voltasFor(repeatInfo[r], 2) = {}
          /\ Len(stepsWithin(playbackSequence, repeatInfo[r].startMeasure,
                             resumeAfter(repeatInfo[r]) - 1)) >= 4

\* Measure m lies in a section or in a volta ending of the parse.
InSectionOrEnding(repeatInfo, m) ==
  \E r \in 1..Len(repeatInfo) :
     \/ m >= repeatInfo[r].startMeasure /\ m <= repeatInfo[r].endMeasure
     \/ \E e \in 1..Len(repeatInfo[r].endings) :
           /\ m >= repeatInfo[r].endings[e].startMeasure
           /\ m <= repeatInfo[r].endings[e].endMeasure

\* The two iterations of a section, each with the first ending that lists
\* it.
sectionBlock(section) ==
  LET first(k) == IF voltasFor(section, k) = {} THEN 0 ELSE Min(voltasFor(section, k))
  IN iterationWith(section, 1, first(1)) \o iterationWith(section, 2, first(2))

\* The sequence as the outer scan lays it out from measure cur on: at a
\* section start, the iterations of the section, the scan going on after its
\* last ending; elsewhere the measure itself, once and in iteration 0, unless
\* it lies in a section or an ending.
RECURSIVE outerScan(_, _)
outerScan(repeatInfo, cur) ==
  IF cur > lastMeasure THEN <<>>
  ELSE LET found == { r \in 1..Len(repeatInfo) : repeatInfo[r].startMeasure = cur }
       IN IF found # {}
          THEN sectionBlock(repeatInfo[Min(found)])
               \o outerScan(repeatInfo, resumeAfter(repeatInfo[Min(found)]))
          ELSE (IF InSectionOrEnding(repeatInfo, cur) THEN <<>>
                ELSE passOver(cur, cur, 0))
               \o outerScan(repeatInfo, cur + 1)

\* C27: after a section is emitted the outer scan resumes at the measure
\* following the section's last volta ending (the section end without
\* endings); it emits no measure of a section or ending, and every measure
\* in no section and no ending exactly once, in iteration 0 and in ascending
\* order.
OuterScanResumesAfterEndings ==
  JustBuilt =>
    LET repeatInfo == parseRepetitionInstructions(sourceMeasures)
    IN /\ playbackSequence = outerScan(repeatInfo, 0)
       /\ \A m \in 0..lastMeasure :
            ~InSectionOrEnding(repeatInfo, m)
            => stepsWithin(playbackSequence, m, m) = passOver(m, m, 0)

MeasuresAroundSection ==
  /\ JustBuilt
  /\ sourceMeasures = WorkedExampleMeasures
  /\ LET repeatInfo == parseRepetitionInstructions(sourceMeasures)
     IN /\ processedFrom(repeatInfo, 0) = {1}
        /\ resumeAfter(repeatInfo[1]) = 10
        /\ stepsWithin(playbackSequence, 0, 1) = passOver(0, 1, 0)
        /\ stepsWithin(playbackSequence, 10, 11) = passOver(10, 11, 0)
        /\ Len(passOver(10, 11, 0)) = 3

\* The measure at which an ending starting at measure j stops at the latest:
\* the next measure after j that ends a repeat, or the measure before the
\* next one after j that starts a volta, or else the last measure.
voltaBound(j) ==
  Min({ k \in (j + 1)..lastMeasure : sourceMeasures[k + 1].re }
      \cup { k - 1 : k \in { x \in (j + 1)..lastMeasure : sourceMeasures[x + 1].ve } }
      \cup { lastMeasure })

\* C28: every ending recorded for a section stops at the next repeat-end or
\* before the next volta-start after its first measure; an ending that starts
\* on the section's repeat-end measure is one measure long, stays within the
\* section, and once a later measure has been played no measure of the
\* section is played again.
VoltaEndingsBounded ==
  JustBuilt =>
    LET repeatInfo == parseRepetitionInstructions(sourceMeasures)
    IN \A r \in 1..Len(repeatInfo) : \A e \in 1..Len(repeatInfo[r].endings) :
         LET section == repeatInfo[r]
             ending == section.endings[e]
         IN /\ ending.endMeasure <= voltaBound(ending.startMeasure)
            /\ ending.startMeasure = section.endMeasure
               => /\ ending.endMeasure = ending.startMeasure
                  /\ r \in processedFrom(repeatInfo, 0)
                     => \A i, i2 \in 1..Len(playbackSequence) :
                          (i < i2 /\ playbackSequence[i].measureIndex > section.endMeasure)
                          => ~(/\ playbackSequence[i2].measureIndex >= section.startMeasure
                               /\ playbackSequence[i2].measureIndex <= section.endMeasure)

\* C36: every note-group index of the score occurs in the built playback
\* sequence, so that getPositionForNoteGroupIndex finds every in-range index.
EveryNoteGroupInSequence ==
  JustBuilt =>
    \A g \in 0..(Len(rhNoteGroups) - 1) :
      /\ \E i \in 1..Len(playbackSequence) : playbackSequence[i].noteGroupIndex = g
      /\ getPositionForNoteGroupIndex(playbackSequence, g) >= 0

\* The measure ranges of two sections share no measure.
SectionsDisjoint(a, b) == a.endMeasure < b.startMeasure \/ b.endMeasure < a.startMeasure

\* C25: every section of parseRepetitionInstructions has startMeasure <=
\* endMeasure, and no two sections overlap in their measure ranges, whatever
\* repeat-start, repeat-end and volta flags the measures carry.
SectionsOrderedAndDisjoint ==
  JustBuilt =>
    LET repeatInfo == parseRepetitionInstructions(sourceMeasures)
    IN /\ \A r \in 1..Len(repeatInfo) :
            repeatInfo[r].startMeasure <= repeatInfo[r].endMeasure
       /\ \A r1, r2 \in 1..Len(repeatInfo) :
            r1 < r2 => SectionsDisjoint(repeatInfo[r1], repeatInfo[r2])

----------------------------------------------------------------------------
(* Properties of the practice engine                                       *)

\* The note-group at playback position p of the practice engine, -1 if none.
peGroupAt(p) ==
  IF peHandler.present THEN getNoteGroupIndexForPosition(peHandler.seq, p)
  ELSE IF p >= 0 /\ p < Len(peScore) THEN p ELSE -1

peLength == IF peHandler.present THEN Len(peHandler.seq) ELSE Len(peScore)

\* The last step was a progress check that moved the cursor.
ProgressCheckAdvanced ==
  /\ peLastOp.op \in {"handleNoteOn", "timer"}
  /\ pePos # peLastOp.from

\* C3: a progress check (run by a note-on or by an auto-advance timer) moves
\* the cursor past one note-group only, and if that group has expected notes
\* under the practice mode, all of them are in pressedNotes.
NoAdvancePastUnplayedGroup ==
  ProgressCheckAdvanced =>
    /\ pePos = peLastOp.from + 1
    /\ LET g == peGroupAt(peLastOp.from)
       IN g >= 0 => \A n \in peScore[g + 1].notes :
                      (peMode = "both" \/ n.hand = peMode) => n.pitch \in pePressed

ChordMatchedAndPassed ==
  /\ ProgressCheckAdvanced
  /\ peMode = "both"
  /\ peGroupAt(peLastOp.from) >= 0
  /\ Cardinality(peScore[peGroupAt(peLastOp.from) + 1].notes) = 2

\* The last step took the cursor of a playing session to the end of the
\* sequence: by a matched note-on, by a timed auto-advance, or by the
\* skipEmptyGroups of start().
ReachedEndWhilePlaying ==
  /\ peLastOp.op \in {"handleNoteOn", "timer", "start"}
  /\ peLastOp.from < peLength
  /\ pePos >= peLength

\* C4: when the cursor reaches the end of the sequence during a playing
\* session, the session is paused and the completion callback is invoked.
CompletionAtEnd ==
  ReachedEndWhilePlaying => (~peIsPlaying /\ Fired(peEvents, "complete"))

\* C5: once the completion callback has fired, no start, pause, note-on,
\* note-off or timer firing invokes it again until reset, jumpToNoteGroup,
\* setPracticeMode or loadScore has moved the cursor back.
CompletionFiresOnce ==
  [][peCompleted => ~Fired(peEvents', "complete")]_vars

NoteOnAfterCompletion ==
  /\ peCompleted
  /\ peIsPlaying
  /\ peLastOp.op = "handleNoteOn"
  /\ ~Fired(peEvents, "complete")

\* C8: a timer scheduled before the latest pause() changes neither the cursor
\* nor invokes a callback when it fires.
StaleTimerInert ==
  (peLastOp.op = "timer" /\ peLastOp.arg = TRUE) =>
    (pePos = peLastOp.from /\ peEvents = <<>>)

\* C10: jumpToNoteGroup(index) with index < 0 or index >= the number of
\* note-groups changes neither the cursor position, currentNoteGroupIndex,
\* pressedNotes, correctNotesPressed nor isPlaying, and invokes no callback.
OutOfRangeJumpIsNoOp ==
  [][(/\ peLastOp'.op = "jumpToNoteGroup"
      /\ (peLastOp'.arg < 0 \/ peLastOp'.arg >= Len(peScore)))
     => /\ pePos' = pePos
        /\ peCur' = peCur
        /\ pePressed' = pePressed
        /\ peCorrect' = peCorrect
        /\ peIsPlaying' = peIsPlaying
        /\ peEvents' = <<>>]_vars

OutOfRangeJumpWhileHolding ==
  /\ peLastOp.op = "jumpToNoteGroup"
  /\ peLastOp.arg = Len(peScore)
  /\ Len(peScore) > 0
  /\ pePressed # {}
  /\ peIsPlaying

\* The pitches the practice mode expects at playback position p (none where
\* the position refers to no note-group).
peExpectedAt(p) ==
  IF peGroupAt(p) >= 0 /\ peGroupAt(p) < Len(peScore)
  THEN { n.pitch : n \in { x \in peScore[peGroupAt(p) + 1].notes :
                             peMode = "both" \/ x.hand = peMode } }
  ELSE {}

\* The first playback position referring to note-group index, -1 if none.
peFirstPosition(index) ==
  LET ps == { p \in 0..(peLength - 1) : peGroupAt(p) = index }
  IN IF ps = {} THEN -1 ELSE Min(ps)

\* The first position from p on whose group has expected notes, or the end of
\* the sequence.
peRestingPosition(p) ==
  Min({ q \in p..(peLength - 1) : peExpectedAt(q) # {} } \cup {peLength})

\* C11: after jumpToNoteGroup(i) with i in range and occurring in the
\* playback sequence, pressedNotes and correctNotesPressed are empty and the
\* cursor is at the first position, from the first occurrence of i on, whose
\* group has expected notes under the practice mode, or at the sequence end.
JumpLandsOnFirstOccurrence ==
  (/\ peLastOp.op = "jumpToNoteGroup"
   /\ peLastOp.arg >= 0 /\ peLastOp.arg < Len(peScore)
   /\ peFirstPosition(peLastOp.arg) >= 0)
  => /\ pePressed = {}
     /\ peCorrect = {}
     /\ pePos = peRestingPosition(peFirstPosition(peLastOp.arg))
     /\ (peExpectedAt(peFirstPosition(peLastOp.arg)) # {}
           => pePos = peFirstPosition(peLastOp.arg))

JumpSkippedInRepeatedScore ==
  /\ peLastOp.op = "jumpToNoteGroup"
  /\ peLastOp.arg >= 0 /\ peLastOp.arg < Len(peScore)
  /\ peHandler.present
  /\ Len(peHandler.seq) > Len(peScore)
  /\ pePos > peFirstPosition(peLastOp.arg)
  /\ pePos < peLength

peOtherHandAt(p) ==
  IF peGroupAt(p) >= 0 /\ peGroupAt(p) < Len(peScore) /\ peMode # "both"
  THEN { n \in peScore[peGroupAt(p) + 1].notes : n.hand # peMode }
  ELSE {}

\* The position from which the last operation moved the cursor forward.
pePassedFrom ==
  CASE peLastOp.op = "setPracticeMode" -> 0
    [] peLastOp.op = "jumpToNoteGroup" /\ peFirstPosition(peLastOp.arg) >= 0
         -> peFirstPosition(peLastOp.arg)
    [] OTHER -> peLastOp.from

\* C13: in practice mode left or right, whenever an operation (a note-on, a
\* timer, start, jumpToNoteGroup or setPracticeMode) moves the cursor past a
\* group that has notes of the other hand, the auto-play callback is invoked
\* with exactly those notes and that group's tempo.
AutoPlayOnEveryPassedGroup ==
  (/\ peMode \in {"left", "right"}
   /\ peLastOp.op \in {"handleNoteOn", "timer", "start", "jumpToNoteGroup",
                        "setPracticeMode"})
  => \A q \in pePassedFrom..(pePos - 1) :
        peOtherHandAt(q) # {}
        => \E i \in 1..Len(peEvents) :
              peEvents[i] = [type |-> "autoPlay", notes |-> peOtherHandAt(q),
                             tempo |-> tempoOf(peScore[peGroupAt(q) + 1])]

\* The snapshot handed to the last progress callback of a list of events.
lastProgress(events) ==
  LET is == { i \in 1..Len(events) : events[i].type = "progress" }
  IN IF is = {} THEN [type |-> "none"] ELSE events[Max(is)]

\* C14: setPracticeMode, start, reset, jumpToNoteGroup, handleNoteOn,
\* handleNoteOff and timer-driven progress checks, when they change the cursor
\* or the held notes, end with a progress callback whose snapshot carries the
\* final currentNoteGroupIndex and the final held notes.
ProgressReportsFinalState ==
  [][(/\ peLastOp'.op \in {"setPracticeMode", "start", "reset", "jumpToNoteGroup",
                            "handleNoteOn", "handleNoteOff", "timer"}
      /\ (pePos' # pePos \/ peCur' # peCur \/ pePressed' # pePressed))
     => /\ lastProgress(peEvents').type = "progress"
        /\ lastProgress(peEvents').cur = peCur'
        /\ lastProgress(peEvents').pressed = pePressed']_vars

\* C18: with a score of zero note-groups getProgress() is 0 and start()
\* leaves the session complete: not playing, the completion callback
\* invoked.
EmptyScoreCompletesAtStart ==
  Len(peScore) = 0 =>
    /\ getProgress(PE) = 0
    /\ peLastOp.op = "start" => (~peIsPlaying /\ Fired(peEvents, "complete"))

\* C29: while the session is playing and the group under the cursor has
\* expected notes, a handleNoteOn after which every expected pitch is held
\* moves the cursor on by exactly one position within the call, whatever
\* other notes are held, and a handleNoteOn that leaves an expected pitch
\* unheld leaves the cursor where it is.
NoteOnAdvancesOnSuperset ==
  [][(/\ peLastOp'.op = "handleNoteOn"
      /\ peIsPlaying
      /\ peExpectedAt(pePos) # {})
     => IF peExpectedAt(pePos) \subseteq (pePressed \cup {peLastOp'.arg})
        THEN pePos' = pePos + 1
        ELSE pePos' = pePos]_vars

ExtraNoteHeldOnAdvance ==
  /\ peLastOp.op = "handleNoteOn"
  /\ pePos = peLastOp.from + 1
  /\ peExpectedAt(peLastOp.from) # {}
  /\ peExpectedAt(peLastOp.from) \subseteq pePressed
  /\ pePressed \ peExpectedAt(peLastOp.from) # {}
  /\ peLastOp.arg \in peExpectedAt(peLastOp.from)

\* C33: after every operation of the practice engine and after every
\* timer-driven progress check, currentNoteGroupIndex is the note-group index
\* of the step at currentPlaybackPosition (the position itself without a
\* repeat handler), also after a jump to a note-group that the playback
\* sequence leaves out.
CursorIndexMatchesPosition == peCur = getCurrentNoteGroupIndex(PE)

\* A jump to a note-group of the score that no step of the sequence refers
\* to.
JumpedToLeftOutGroup ==
  /\ peLastOp.op = "jumpToNoteGroup"
  /\ peLastOp.arg >= 0
  /\ peLastOp.arg < Len(peScore)
  /\ peHandler.present
  /\ getPositionForNoteGroupIndex(peHandler.seq, peLastOp.arg) = -1
  /\ peLastOp.from > 0
  /\ peCur # peLastOp.arg

\* C34: getProgress() is an integer from 0 to 100 in every reachable state.
ProgressWithinPercent == getProgress(PE) \in 0..100

\* C35: getCurrentMeasure() never fails and returns a value from 0 to the
\* last measure index plus one in every reachable state.
CurrentMeasureDefined ==
  /\ ~getCurrentMeasure(PE).throws
  /\ getCurrentMeasure(PE).value \in 0..Len(peScore)

\* The last step was a progress check that moved the cursor on and made a
\* timer for the group now under it.
AutoAdvanceScheduled ==
  /\ peLastOp.op \in {"handleNoteOn", "timer"}
  /\ pePos = peLastOp.from + 1
  /\ scheduleNextAutoPlay(PE).scheduled > 0

\* C40: the delay scheduleNextAutoPlay computes for a timed auto-advance is
\* never negative, also where the sequence steps back at a repeat.
AutoPlayDelayNotNegative == AutoAdvanceScheduled => autoPlayDelay(PE) >= 0

----------------------------------------------------------------------------
(* Properties of the playback engine                                       *)

\* A timer made by setTimeout is still to fire.
TimerPending(tasks) == \E t \in DOMAIN tasks : t.kind = "timer"

\* C23: stop() and pause() each leave the engine not playing with no timer
\* pending, invoke the sound handler's stop-all, and leave the cursor where it
\* was.
StopAndPauseCancelAndSilence ==
  [][pbLastOp'.op \in {"stop", "pause"}
     => /\ ~pbIsPlaying'
        /\ ~TimerPending(pbTasks')
        /\ Fired(pbEvents', "stopAll")
        /\ pbPos' = pbPos]_vars

\* The number of timers made by setTimeout that are still to fire.
pendingTimers(tasks) ==
  BagCardinality([t \in { x \in DOMAIN tasks : x.kind = "timer" } |-> tasks[t]])

\* C32: at most one continuation timer is pending at any time, over every
\* interleaving of play, stop, pause, resume, timer firings and settled
\* sound-handler calls.
AtMostOneTimerPending == pendingTimers(pbTasks) <= 1

pbLength == IF pbHandler.present THEN Len(pbHandler.seq) ELSE Len(pbNoteGroups)

pbGroupAt(p) ==
  IF pbHandler.present THEN getNoteGroupIndexForPosition(pbHandler.seq, p) ELSE p

\* What a run from position p on reports: for each position the progress
\* callback with the note-group index, then the sounding of that group, and
\* the completion callback at the end.
RECURSIVE ExpectedRun(_)
ExpectedRun(p) ==
  IF p >= pbLength THEN <<[type |-> "complete"]>>
  ELSE <<[type |-> "progress", index |-> pbGroupAt(p)],
         [type |-> "sound", index |-> pbGroupAt(p)]>> \o ExpectedRun(p + 1)

IsPrefix(a, b) == Len(a) <= Len(b) /\ SubSeq(b, 1, Len(a)) = a

\* C6: an uninterrupted play(s) with 0 <= s < n reports the note-group index
\* of the positions s..n-1 to the progress callback, once each and in order,
\* sounds each group after its report, and ends with the engine stopped and
\* the completion callback fired once.
UninterruptedRun ==
  (pbRun.clean /\ pbRun.start >= 0 /\ pbRun.start < pbLength) =>
    /\ IsPrefix(pbRun.log, ExpectedRun(pbRun.start))
    /\ (pbTasks = EmptyBag => (pbRun.log = ExpectedRun(pbRun.start) /\ ~pbIsPlaying))
    /\ (pbIsPlaying => pbTasks # EmptyBag)

RepeatedRunFinished ==
  /\ pbRun.clean
  /\ pbRun.start >= 1
  /\ pbLength > Len(pbNoteGroups)
  /\ pbTasks = EmptyBag
  /\ pbRun.log = ExpectedRun(pbRun.start)

\* C7: a continuation of a chain that was running when stop() or pause() was
\* called sounds no note, leaves the cursor alone and fires neither the
\* progress nor the completion callback.
StaleChainInert ==
  [][pbLastOp'.stale =>
       /\ pbPos' = pbPos
       /\ ~\E i \in 1..Len(pbEvents') :
             pbEvents'[i].type \in {"progress", "sound", "playNote", "complete"}]_vars

----------------------------------------------------------------------------
(* Properties of the playback timing                                       *)

\* The tempo the engine uses for note-group g: its own, or the engine's.
tempoAt(g) ==
  IF pbNoteGroups[g + 1].tempo # 0 THEN pbNoteGroups[g + 1].tempo ELSE pbTempo

\* The longest note of note-group g, a tie origin counting with the whole
\* length of its chain.
longestAt(g) ==
  Max({ IF pbNoteGroups[g + 1].notes[n].totalDuration # 0
        THEN pbNoteGroups[g + 1].notes[n].totalDuration
        ELSE pbNoteGroups[g + 1].notes[n].duration :
          n \in 1..Len(pbNoteGroups[g + 1].notes) })

\* length x (60000 / tempo) x 4 / tempoMultiplier in milliseconds, for a
\* length in whole notes and the multiplier in hundredths.
msFor(length, tempo) == (100 * length * 60000 * 4) \div (tempo * pbTempoMultiplier)

\* The last step scheduled the transition from note-group cur to the
\* note-group nxt of the next position, both with an absolute time.
Scheduled(i, cur, nxt) ==
  /\ pbEvents[i].type = "setTimeout"
  /\ pbEvents[i].noteGroupIndex = cur
  /\ pbPos < pbLength
  /\ pbGroupAt(pbPos) = nxt
  /\ nxt >= 0 /\ nxt < Len(pbNoteGroups)
  /\ pbNoteGroups[cur + 1].absoluteTime # -1
  /\ pbNoteGroups[nxt + 1].absoluteTime # -1

\* C19: for a transition between two groups with an absolute time, the delay
\* is the difference of the absolute times x (60000/tempo) x 4 /
\* tempoMultiplier when the next note-group index is the current one plus 1,
\* and otherwise the longest note duration of the current group (a tie
\* origin's totalDuration) x (60000/tempo) x 4 / tempoMultiplier.
DelayBetweenGroups ==
  \A i \in 1..Len(pbEvents) : \A cur, nxt \in 0..(Len(pbNoteGroups) - 1) :
    Scheduled(i, cur, nxt) =>
      pbEvents[i].delay =
        IF nxt = cur + 1
        THEN msFor(pbNoteGroups[nxt + 1].absoluteTime - pbNoteGroups[cur + 1].absoluteTime,
                   tempoAt(cur))
        ELSE msFor(longestAt(cur), tempoAt(cur))

RepeatedGroupScheduled ==
  \E i \in 1..Len(pbEvents) : \E cur \in 0..(Len(pbNoteGroups) - 1) :
    /\ Scheduled(i, cur, cur)
    /\ pbTempoMultiplier = 50
    /\ pbEvents[i].delay > 0

\* C20: for a transition to a note-group other than the next one, the delay
\* is fixed by the departing group alone (its longest note, its tempo) and is
\* at least the duration handed to the sound handler for each note sounded
\* from the departing group.
JumpDelayCoversSounding ==
  \A i \in 1..Len(pbEvents) : \A cur, nxt \in 0..(Len(pbNoteGroups) - 1) :
    (Scheduled(i, cur, nxt) /\ nxt # cur + 1 /\ pbRun.clean) =>
      /\ pbEvents[i].delay = msFor(longestAt(cur), tempoAt(cur))
      /\ pbEvents[i].delay >= pbRun.sounded

\* C37: the final note-group of the sequence sounds for its full duration:
\* the call of playNextGroup that ends the run, stops all notes and fires the
\* completion callback is scheduled no earlier than the longest duration
\* handed to the sound handler for the final group.
FinalGroupSoundsInFull ==
  \A i \in 1..Len(pbEvents) :
    (pbEvents[i].type = "setTimeout" /\ pbPos >= pbLength /\ pbRun.clean) =>
      pbEvents[i].delay >= pbRun.sounded

\* The first note of note-group g that playNoteGroupWithTies hands to the
\* sound handler (0 if every note is a tie continuation).
firstSoundedNote(g) ==
  LET ns == { n \in 1..Len(pbNoteGroups[g + 1].notes) :
                ~pbNoteGroups[g + 1].notes[n].isTieContinuation }
  IN IF ns = {} THEN 0 ELSE Min(ns)

\* The length the scheduler waits for between note-groups cur and nxt.
stepLength(cur, nxt) ==
  IF nxt = cur + 1
  THEN pbNoteGroups[nxt + 1].absoluteTime - pbNoteGroups[cur + 1].absoluteTime
  ELSE longestAt(cur)

\* Note-group g is sounded in this step and its first note handed to the
\* sound handler for a duration computed with the given tempo.
SoundedWithTempo(i, g, tempo) ==
  /\ pbEvents[i].type = "sound"
  /\ pbEvents[i].index = g
  /\ firstSoundedNote(g) > 0
  /\ i < Len(pbEvents)
  /\ pbEvents[i + 1].type = "playNote"
  /\ pbEvents[i + 1].duration =
       msFor(LET note == pbNoteGroups[g + 1].notes[firstSoundedNote(g)]
             IN IF note.totalDuration # 0 THEN note.totalDuration ELSE note.duration,
             tempo)

\* C21 (as stated): the sounding duration of a group's notes is computed with
\* that group's tempo, and the delay to the next step with the tempo of the
\* next group.
DelayUsesNextTempo ==
  \A i \in 1..Len(pbEvents) : \A cur, nxt \in 0..(Len(pbNoteGroups) - 1) :
    /\ (pbEvents[i].type = "sound" /\ pbEvents[i].index = cur
        /\ firstSoundedNote(cur) > 0)
       => SoundedWithTempo(i, cur, tempoAt(cur))
    /\ Scheduled(i, cur, nxt)
       => pbEvents[i].delay = msFor(stepLength(cur, nxt), tempoAt(nxt))

\* C21 (amended): the sounding duration of a group's notes and the delay to
\* the next step are both computed with the tempo of the current group (the
\* engine's tempo where the group has none), also when the next group carries
\* a different tempo.
DelayUsesCurrentTempo ==
  \A i \in 1..Len(pbEvents) : \A cur, nxt \in 0..(Len(pbNoteGroups) - 1) :
    /\ (pbEvents[i].type = "sound" /\ pbEvents[i].index = cur
        /\ firstSoundedNote(cur) > 0)
       => SoundedWithTempo(i, cur, tempoAt(cur))
    /\ Scheduled(i, cur, nxt)
       => pbEvents[i].delay = msFor(stepLength(cur, nxt), tempoAt(cur))

TempoChangeScheduled ==
  \E i \in 1..Len(pbEvents) : \E cur, nxt \in 0..(Len(pbNoteGroups) - 1) :
    /\ Scheduled(i, cur, nxt)
    /\ nxt = cur + 1
    /\ tempoAt(cur) # tempoAt(nxt)
    /\ pbEvents[i].delay = msFor(1, tempoAt(cur))
    /\ pbEvents[i].delay # msFor(1, tempoAt(nxt))

----------------------------------------------------------------------------
(* Properties of the tie pre-computation                                   *)

\* The place of the note of a pitch in note-group g (counted from 1), 0 if
\* the group has none.
tieNoteIn(g, pitch) ==
  FirstIndex({ n \in 1..Len(pbNoteGroups[g].notes) :
                 pbNoteGroups[g].notes[n].pitch = pitch })

TiedIn(g, pitch) ==
  tieNoteIn(g, pitch) > 0 /\ pbNoteGroups[g].notes[tieNoteIn(g, pitch)].isTied

UntiedIn(g, pitch) ==
  tieNoteIn(g, pitch) > 0 /\ ~pbNoteGroups[g].notes[tieNoteIn(g, pitch)].isTied

\* No tie of the pitch is active on entry to group a: the pitch does not
\* occur earlier, or its last earlier occurrence is untied.
NoTieActiveBefore(a, pitch) ==
  LET occ == { g \in 1..(a - 1) : tieNoteIn(g, pitch) > 0 }
  IN occ = {} \/ UntiedIn(Max(occ), pitch)

\* The pitch is tied in each of the consecutive groups a..b, no tie of it is
\* active before a, and after b it is next met untied or not at all.
TieRun(a, b, pitch) ==
  /\ \A g \in a..b : TiedIn(g, pitch)
  /\ NoTieActiveBefore(a, pitch)
  /\ LET occ == { g \in (b + 1)..Len(pbNoteGroups) : tieNoteIn(g, pitch) > 0 }
     IN occ = {} \/ UntiedIn(Min(occ), pitch)

\* The durations of the notes of the pitch in the groups a..b, added up.
RECURSIVE runDuration(_, _, _)
runDuration(a, b, pitch) ==
  IF a > b THEN 0
  ELSE pbNoteGroups[a].notes[tieNoteIn(a, pitch)].duration + runDuration(a + 1, b, pitch)

\* play() has run its tie pre-computation on the loaded score.
TiesComputed == pbLastOp.op # "loadScore"

SeparateChains(a, b, c, pitch) ==
  /\ a <= b
  /\ b + 1 < c
  /\ \A g \in a..b : TiedIn(g, pitch)
  /\ NoTieActiveBefore(a, pitch)
  /\ \A g \in (b + 1)..(c - 1) : tieNoteIn(g, pitch) = 0
  /\ TiedIn(c, pitch)

\* C38: when a pitch forms two tie chains separated by groups without the
\* pitch, the first note of the second chain is a new origin (no
\* continuation, so it is sounded) and the totalDuration of the first chain
\* counts no note of the second.
SecondChainIsNewOrigin ==
  TiesComputed =>
    \A pitch \in {60, 62} : \A a, b, c \in 1..Len(pbNoteGroups) :
      SeparateChains(a, b, c, pitch) =>
        /\ ~pbNoteGroups[c].notes[tieNoteIn(c, pitch)].isTieContinuation
        /\ pbNoteGroups[a].notes[tieNoteIn(a, pitch)].totalDuration
             = runDuration(a, b, pitch)

\* A score without the fields the tie pre-computation derives.
asLoaded(ngs) ==
  [i \in 1..Len(ngs) |->
     [notes |-> [n \in 1..Len(ngs[i].notes) |->
                   [pitch |-> ngs[i].notes[n].pitch,
                    duration |-> ngs[i].notes[n].duration,
                    isTied |-> ngs[i].notes[n].isTied]],
      tempo |-> ngs[i].tempo,
      absoluteTime |-> ngs[i].absoluteTime]]

\* A score with the marks of the tie pre-computation taken off.
unmarked(ngs) ==
  [i \in 1..Len(ngs) |->
     [ngs[i] EXCEPT !.notes = [n \in 1..Len(ngs[i].notes) |->
                                 [ngs[i].notes[n] EXCEPT !.isTieContinuation = FALSE,
                                                         !.totalDuration = 0]]]]

\* C39: the tie pre-computation is idempotent: a play() or resume() that
\* runs it again on note-groups it has marked before leaves every
\* totalDuration and isTieContinuation as it was (the marks change only in
\* the run on the unmarked score), and no run changes the pitch, duration or
\* tie flag of a note or the tempo or absolute time of a group.
TiePrecomputationIdempotent ==
  [][/\ asLoaded(pbNoteGroups') = asLoaded(pbNoteGroups)
     /\ pbNoteGroups' # pbNoteGroups => pbNoteGroups = unmarked(pbNoteGroups)]_vars

\* resume() has run the pre-computation again, from a position an earlier
\* play() had reached, on a score with a marked tie chain.
ResumedOverTieChain ==
  /\ pbLastOp.op = "resume"
  /\ pbIsPlaying
  /\ pbPos >= 1
  /\ pbEvents # <<>>
  /\ \E i, j \in 1..Len(pbNoteGroups) :
       /\ i < j
       /\ pbNoteGroups[i].notes[1].totalDuration = 2
       /\ pbNoteGroups[j].notes[1].isTieContinuation

----------------------------------------------------------------------------
(* Properties of the sounding of a note-group                              *)

Awaiting(tasks) == \E t \in DOMAIN tasks : t.kind = "await"

\* The call suspended in await soundHandler.playNote (one chain is running).
awaited(tasks) == CHOOSE t \in DOMAIN tasks : t.kind = "await"

playNotes(events) == { i \in 1..Len(events) : events[i].type = "playNote" }

soundStarts(events) == { i \in 1..Len(events) : events[i].type = "sound" }

\* The length a note is sounded for: the total of its chain for a tie
\* origin, its own duration for an untied note.
soundingLength(note) == IF note.isTied THEN note.totalDuration ELSE note.duration

\* The notes of group g at the places from..to are all tie continuations.
AllContinuations(ngs, g, from, to) ==
  \A n \in from..to : ngs[g + 1].notes[n].isTieContinuation

\* A step that goes on with the sounding of group g at its note from: the
\* continuations from there on are passed over and the first other note is
\* handed to the sound handler, once, for its sounding length; with no such
\* note left nothing is handed over and the sounding is finished.
SoundingStep(g, from) ==
  IF Awaiting(pbTasks')
  THEN LET t == awaited(pbTasks')
           note == pbNoteGroups'[g + 1].notes[t.k - 1]
       IN /\ t.g = g
          /\ t.k - 1 >= from
          /\ AllContinuations(pbNoteGroups', g, from, t.k - 2)
          /\ ~note.isTieContinuation
          /\ Cardinality(playNotes(pbEvents')) = 1
          /\ \A i \in playNotes(pbEvents') :
               /\ pbEvents'[i].pitch = note.pitch
               /\ pbEvents'[i].duration = msFor(soundingLength(note), tempoAt(g))
  ELSE /\ playNotes(pbEvents') = {}
       /\ AllContinuations(pbNoteGroups', g, from, Len(pbNoteGroups'[g + 1].notes))

\* C31: while a note-group is sounded every tie continuation is passed over
\* and every other note is handed to the sound handler exactly once, a tie
\* origin for its accumulated totalDuration and an untied note for its own
\* duration.
ContinuationsSkippedOthersSounded ==
  [][IF soundStarts(pbEvents') # {}
     THEN /\ Cardinality(soundStarts(pbEvents')) = 1
          /\ \A i \in soundStarts(pbEvents') : SoundingStep(pbEvents'[i].index, 1)
     ELSE IF pbLastOp'.op = "soundResolves"
     THEN SoundingStep(awaited(pbTasks).g, awaited(pbTasks).k)
     ELSE playNotes(pbEvents') = {}]_vars

\* In a chord the continuation of pitch 60 is passed over and the origin of
\* pitch 62 is sounded for the two chords its tie spans.
ChordOriginSoundedAfterSkip ==
  /\ Awaiting(pbTasks)
  /\ LET t == awaited(pbTasks) IN
     /\ t.k = 3
     /\ pbNoteGroups[t.g + 1].notes[1].isTieContinuation
     /\ pbNoteGroups[t.g + 1].notes[2].isTied
     /\ pbNoteGroups[t.g + 1].notes[2].totalDuration = 2
     /\ \E i \in playNotes(pbEvents) :
          /\ pbEvents[i].pitch = 62
          /\ pbEvents[i].duration = msFor(2, tempoAt(t.g))

----------------------------------------------------------------------------
(* Properties of stop, pause and resume                                    *)

\* C24: a run that was stopped or paused and then resumed reports and sounds
\* every position from its start to the sequence end once, in increasing
\* order, and completes; resume() changes nothing when the engine is playing
\* or the cursor is at the sequence end.
ResumeContinuesRun ==
  [][/\ (pbRun'.resumed /\ pbRun'.start >= 0 /\ pbRun'.start < pbLength)
        => /\ IsPrefix(pbRun'.log, ExpectedRun(pbRun'.start))
           /\ (pbTasks' = EmptyBag /\ ~pbIsPlaying')
                => pbRun'.log = ExpectedRun(pbRun'.start)
     /\ (pbLastOp'.op = "resume" /\ (pbIsPlaying \/ pbPos >= pbLength))
        => /\ pbEvents' = <<>>
           /\ <<pbNoteGroups, pbIsPlaying, pbPos, pbTimeoutSet, pbTasks>>'
                = <<pbNoteGroups, pbIsPlaying, pbPos, pbTimeoutSet, pbTasks>>]_vars


----------------------------------------------------------------------------
(* Properties of the practice engine's timers                              *)

\* The session is playing and the cursor rests on a note-group that expects
\* no note under the practice mode.
StalledOnEmptyGroup ==
  /\ peIsPlaying
  /\ pePos < peSequenceLength(PE)
  /\ peExpectedAt(pePos) = {}

\* C30: once no further input arrives and only timers run, a playing session
\* does not stay forever on a note-group whose expected set under the
\* practice mode is empty.
EmptyGroupEventuallyPassed ==
  <>[][PeTimerRuns]_vars => []<>(~StalledOnEmptyGroup)

====
